---- MODULE Spec2Model ----
(***************************************************************************)
(* Modai: the embedded-protocol extractor (src/src/index.ts) and the       *)
(* agentic loop of the command line (src/src/cli.ts).                      *)
(*                                                                         *)
(* A text is a sequence of tokens.  The structural characters of JSON are  *)
(* one token each; a run of letters or digits that the code never looks    *)
(* into is one token ("protocol", "modai", "hello", ...).  Positions are   *)
(* 1-based here and 0-based in the source.                                 *)
(***************************************************************************)
EXTENDS Integers, Sequences, FiniteSets, TLC

LB == "{"
RB == "}"
Q == "\""
BS == "\\"
COLON == ":"
COMMA == ","
SP == " "
NL == "\n"
LSQ == "["
RSQ == "]"

\* JSON whitespace, which is also what \s and trim() take as whitespace.
WS == {SP, NL}

\* The digit tokens and the literal names of JSON.
NumberWords == {"1"}
LiteralWords == {"true", "false", "null"}

\* A backslash followed by a word is an escape of the word's first letter:
\* of the words used in texts only "tool" and "true" start with a letter
\* that JSON accepts after a backslash (\t); every other word starts with
\* a letter that makes JSON.parse throw.
WordEscape(w) ==
  CASE w = "tool" -> <<"<TAB>", "ool">>
    [] w = "true" -> <<"<TAB>", "rue">>
    [] OTHER -> <<>>

Range(s) == {s[i] : i \in 1..Len(s)}

Min(S) == CHOOSE x \in S : \A y \in S : x <= y

\* text.substring(from) in 1-based positions.
Tail2(s, from) == IF from > Len(s) THEN <<>> ELSE SubSeq(s, from, Len(s))

\* text.indexOf(ch, from): the first position >= from holding ch, 0 if none
\* (the source's -1).
IndexOf(text, ch, from) ==
  LET S == {i \in from..Len(text) : text[i] = ch}
  IN  IF S = {} THEN 0 ELSE Min(S)

\* The first position >= i that holds no whitespace (Len+1 if none).
SkipWs(s, i) ==
  LET S == {j \in i..Len(s) : s[j] \notin WS}
  IN  IF S = {} THEN Len(s) + 1 ELSE Min(S)

\* String.prototype.trim
RECURSIVE TrimLeft(_)
TrimLeft(s) == IF s # <<>> /\ s[1] \in WS THEN TrimLeft(Tail(s)) ELSE s

RECURSIVE TrimRight(_)
TrimRight(s) ==
  IF s # <<>> /\ s[Len(s)] \in WS THEN TrimRight(SubSeq(s, 1, Len(s) - 1)) ELSE s

Trim(s) == TrimRight(TrimLeft(s))

RemoveAll(s, chars) == SelectSeq(s, LAMBDA c : c \notin chars)

(***************************************************************************)
(* extractJsonObject: the brace-balanced scan.                             *)
(***************************************************************************)
ScanInit == [braceCount |-> 0, inString |-> FALSE, escaped |-> FALSE, done |-> FALSE]

\* One turn of the while loop of extractJsonObject on character c.
ScanStepNoString(st, c) ==
  IF st.escaped THEN [st EXCEPT !.escaped = FALSE]
  ELSE IF c = BS THEN [st EXCEPT !.escaped = TRUE]
  ELSE IF c = Q THEN [st EXCEPT !.inString = ~st.inString]
  ELSE IF c = LB THEN [st EXCEPT !.braceCount = st.braceCount + 1]
  ELSE IF c = RB THEN [st EXCEPT !.braceCount = st.braceCount - 1,
                                 !.done = (st.braceCount - 1 = 0)]
  ELSE st

ScanStep(st, c) ==
  IF st.escaped THEN [st EXCEPT !.escaped = FALSE]
  ELSE IF c = BS THEN [st EXCEPT !.escaped = TRUE]
  ELSE IF c = Q /\ ~st.escaped THEN [st EXCEPT !.inString = ~st.inString]
  ELSE IF ~st.inString
       THEN IF c = LB THEN [st EXCEPT !.braceCount = st.braceCount + 1]
            ELSE IF c = RB
                 THEN [st EXCEPT !.braceCount = st.braceCount - 1,
                                 !.done = (st.braceCount - 1 = 0)]
                 ELSE st
       ELSE st

\* The scan state before the character at position i is examined.
RECURSIVE ScanStateAt(_, _, _)
ScanStateAt(text, startIndex, i) ==
  IF i <= startIndex THEN ScanInit
  ELSE ScanStep(ScanStateAt(text, startIndex, i - 1), text[i - 1])

RECURSIVE ScanFrom(_, _, _, _)
ScanFrom(text, startIndex, i, st) ==
  IF i > Len(text) THEN <<>>
  ELSE LET nx == ScanStep(st, text[i])
       IN  IF nx.done THEN SubSeq(text, startIndex, i)
           ELSE ScanFrom(text, startIndex, i + 1, nx)

\* null is the empty text: the callers test the result for truthiness only.
extractJsonObject(text, startIndex) == ScanFrom(text, startIndex, startIndex, ScanInit)

(***************************************************************************)
(* JSON.parse.  A parsed object is the sequence of its members             *)
(* [k, t, v]: k the key, t the type of the value ("str", "num", "lit",     *)
(* "obj", "arr") and v the value: the decoded content of a string, the     *)
(* compact serialisation (JSON.stringify) of anything else.                *)
(***************************************************************************)
ParseFail == [ok |-> FALSE, t |-> "none", v |-> <<>>, mem |-> <<>>, next |-> 0]

\* The content of a string, escaped as JSON.stringify writes it.
RECURSIVE EscapeStr(_)
EscapeStr(s) ==
  IF s = <<>> THEN <<>>
  ELSE (IF s[1] \in {Q, BS} THEN <<BS, s[1]>> ELSE <<s[1]>>) \o EscapeStr(Tail(s))

Canon(t, v) == IF t = "str" THEN <<Q>> \o EscapeStr(v) \o <<Q>> ELSE v

\* obj[k] = value: a key seen again keeps its place and takes the new value.
SetMember(mem, m) ==
  IF \E i \in 1..Len(mem) : mem[i].k = m.k
  THEN [i \in 1..Len(mem) |-> IF mem[i].k = m.k THEN m ELSE mem[i]]
  ELSE Append(mem, m)

RECURSIVE CanonMembers(_)
CanonMembers(mem) ==
  IF mem = <<>> THEN <<>>
  ELSE Canon("str", mem[1].k) \o <<COLON>> \o Canon(mem[1].t, mem[1].v)
       \o (IF Len(mem) > 1 THEN <<COMMA>> ELSE <<>>) \o CanonMembers(Tail(mem))

\* JSON.stringify(obj) of an object given by its members.
CanonObj(mem) == <<LB>> \o CanonMembers(mem) \o <<RB>>

\* A string literal whose opening quote is at i - 1: acc is the content so far.
RECURSIVE ParseStringFrom(_, _, _)
ParseStringFrom(s, i, acc) ==
  IF i > Len(s) THEN ParseFail
  ELSE IF s[i] = Q
       THEN [ok |-> TRUE, t |-> "str", v |-> acc, mem |-> <<>>, next |-> i + 1]
  ELSE IF s[i] = NL THEN ParseFail
  ELSE IF s[i] = BS
       THEN IF i + 1 > Len(s) THEN ParseFail
            ELSE IF s[i + 1] \in {Q, BS}
                 THEN ParseStringFrom(s, i + 2, Append(acc, s[i + 1]))
            ELSE IF WordEscape(s[i + 1]) # <<>>
                 THEN ParseStringFrom(s, i + 2, acc \o WordEscape(s[i + 1]))
            ELSE ParseFail
  ELSE ParseStringFrom(s, i + 1, Append(acc, s[i]))

RECURSIVE ParseValue(_, _)
RECURSIVE ParseMembers(_, _, _)
RECURSIVE ParseElements(_, _, _)

\* The members of an object from the key at position i on.
ParseMembers(s, i, mem) ==
  IF i > Len(s) \/ s[i] # Q THEN ParseFail
  ELSE LET key == ParseStringFrom(s, i + 1, <<>>)
       IN  IF ~key.ok THEN ParseFail
           ELSE LET c == SkipWs(s, key.next)
                IN  IF c > Len(s) \/ s[c] # COLON THEN ParseFail
                    ELSE LET val == ParseValue(s, c + 1)
                         IN  IF ~val.ok THEN ParseFail
                             ELSE LET m2 == SetMember(mem, [k |-> key.v, t |-> val.t, v |-> val.v])
                                      e == SkipWs(s, val.next)
                                  IN  IF e > Len(s) THEN ParseFail
                                      ELSE IF s[e] = RB
                                           THEN [ok |-> TRUE, t |-> "obj", v |-> CanonObj(m2),
                                                 mem |-> m2, next |-> e + 1]
                                      ELSE IF s[e] = COMMA
                                           THEN ParseMembers(s, SkipWs(s, e + 1), m2)
                                      ELSE ParseFail

\* The elements of an array from the value at position i on.
ParseElements(s, i, acc) ==
  LET val == ParseValue(s, i)
  IN  IF ~val.ok THEN ParseFail
      ELSE LET a2 == acc \o Canon(val.t, val.v)
               e == SkipWs(s, val.next)
           IN  IF e > Len(s) THEN ParseFail
               ELSE IF s[e] = RSQ
                    THEN [ok |-> TRUE, t |-> "arr", v |-> <<LSQ>> \o a2 \o <<RSQ>>,
                          mem |-> <<>>, next |-> e + 1]
               ELSE IF s[e] = COMMA THEN ParseElements(s, e + 1, Append(a2, COMMA))
               ELSE ParseFail

\* The end of the run of digits that starts at i.
RECURSIVE NumberEnd(_, _)
NumberEnd(s, i) == IF i <= Len(s) /\ s[i] \in NumberWords THEN NumberEnd(s, i + 1) ELSE i

ParseValue(s, i) ==
  LET j == SkipWs(s, i)
  IN  IF j > Len(s) THEN ParseFail
      ELSE IF s[j] = LB
           THEN LET k == SkipWs(s, j + 1)
                IN  IF k <= Len(s) /\ s[k] = RB
                    THEN [ok |-> TRUE, t |-> "obj", v |-> <<LB, RB>>, mem |-> <<>>,
                          next |-> k + 1]
                    ELSE ParseMembers(s, k, <<>>)
      ELSE IF s[j] = LSQ
           THEN LET k == SkipWs(s, j + 1)
                IN  IF k <= Len(s) /\ s[k] = RSQ
                    THEN [ok |-> TRUE, t |-> "arr", v |-> <<LSQ, RSQ>>, mem |-> <<>>,
                          next |-> k + 1]
                    ELSE ParseElements(s, k, <<>>)
      ELSE IF s[j] = Q THEN ParseStringFrom(s, j + 1, <<>>)
      ELSE IF s[j] \in NumberWords
           THEN [ok |-> TRUE, t |-> "num", v |-> SubSeq(s, j, NumberEnd(s, j) - 1),
                 mem |-> <<>>, next |-> NumberEnd(s, j)]
      ELSE IF s[j] \in LiteralWords
           THEN [ok |-> TRUE, t |-> "lit", v |-> <<s[j]>>, mem |-> <<>>, next |-> j + 1]
      ELSE ParseFail

\* JSON.parse(s): ok is FALSE where the source's call throws.
JSONparse(s) ==
  LET r == ParseValue(s, 1)
  IN  IF r.ok /\ SkipWs(s, r.next) > Len(s) THEN r ELSE ParseFail

\* obj[name] of a parsed object: <<>> stands for undefined.
Field(mem, name) ==
  LET S == {i \in 1..Len(mem) : mem[i].k = <<name>>}
  IN  IF S = {} THEN <<>> ELSE <<mem[Min(S)]>>

\* obj.protocol === "modai"
IsModai(mem) ==
  LET f == Field(mem, "protocol")
  IN  f # <<>> /\ f[1].t = "str" /\ f[1].v = <<"modai">>

\* The truthiness of obj[name].
Truthy(mem, name) ==
  LET f == Field(mem, name)
  IN  /\ f # <<>>
      /\ CASE f[1].t = "str" -> f[1].v # <<>>
           [] f[1].t = "lit" -> f[1].v = <<"true">>
           [] OTHER -> TRUE

(***************************************************************************)
(* manualKeyValueExtraction and its helpers.                               *)
(***************************************************************************)
NoMatch == [m |-> FALSE, cap |-> <<>>]

\* The position after "key"\s*:\s* when that matches at position i, else 0.
AfterKey(text, key, i) ==
  IF i + 2 <= Len(text) /\ text[i] = Q /\ text[i + 1] = key /\ text[i + 2] = Q
  THEN LET c == SkipWs(text, i + 3)
       IN  IF c <= Len(text) /\ text[c] = COLON THEN SkipWs(text, c + 1) ELSE 0
  ELSE 0

\* The capture of "([^"]+)" matched at position p, the place of the opening quote.
QuotedAt(text, p) ==
  IF p = 0 \/ p > Len(text) \/ text[p] # Q THEN NoMatch
  ELSE LET e == IndexOf(text, Q, p + 1)
       IN  IF e = 0 \/ e = p + 1 THEN NoMatch
           ELSE [m |-> TRUE, cap |-> SubSeq(text, p + 1, e - 1)]

\* The capture of ({[^}]*}) matched at position p, the place of the opening brace.
BracedAt(text, p) ==
  IF p = 0 \/ p > Len(text) \/ text[p] # LB THEN NoMatch
  ELSE LET e == IndexOf(text, RB, p + 1)
       IN  IF e = 0 THEN NoMatch ELSE [m |-> TRUE, cap |-> SubSeq(text, p, e)]

\* The leftmost of the places S at which a pattern matches, 0 if there is none.
Leftmost(S) == IF S = {} THEN 0 ELSE Min(S)

\* text.match(/"key"\s*:\s*"([^"]+)"/): the leftmost match.
MatchKeyStringAt(text, key, i) ==
  IF i = 0 THEN NoMatch ELSE QuotedAt(text, AfterKey(text, key, i))

MatchKeyString(text, key) ==
  MatchKeyStringAt(text, key,
    Leftmost({i \in 1..Len(text) : QuotedAt(text, AfterKey(text, key, i)).m}))

\* text.match(/"arguments"\s*:\s*({[^}]*})/): the leftmost match.
MatchArgumentsAt(text, i) ==
  IF i = 0 THEN NoMatch ELSE BracedAt(text, AfterKey(text, "arguments", i))

MatchArguments(text) ==
  MatchArgumentsAt(text,
    Leftmost({i \in 1..Len(text) : BracedAt(text, AfterKey(text, "arguments", i)).m}))

\* splitArguments: st = [parts, current, inString, escaped].
RECURSIVE SplitFrom(_, _, _)
SplitFrom(content, i, st) ==
  IF i > Len(content)
  THEN IF Trim(st.current) # <<>> THEN Append(st.parts, Trim(st.current)) ELSE st.parts
  ELSE LET c == content[i]
       IN  IF st.escaped
           THEN SplitFrom(content, i + 1,
                  [st EXCEPT !.current = Append(st.current, c), !.escaped = FALSE])
           ELSE IF c = BS
           THEN SplitFrom(content, i + 1,
                  [st EXCEPT !.current = Append(st.current, c), !.escaped = TRUE])
           ELSE IF c = Q
           THEN SplitFrom(content, i + 1,
                  [st EXCEPT !.current = Append(st.current, c), !.inString = ~st.inString])
           ELSE IF c = COMMA /\ ~st.inString
           THEN SplitFrom(content, i + 1,
                  [st EXCEPT !.parts = IF Trim(st.current) # <<>>
                                       THEN Append(st.parts, Trim(st.current))
                                       ELSE st.parts,
                             !.current = <<>>])
           ELSE SplitFrom(content, i + 1, [st EXCEPT !.current = Append(st.current, c)])

splitArguments(content) ==
  SplitFrom(content, 1,
            [parts |-> <<>>, current |-> <<>>, inString |-> FALSE, escaped |-> FALSE])

\* value.replace(/^"|"$/g, ""): one leading and one trailing quote are removed.
StripQuotes(s) ==
  LET a == IF s # <<>> /\ s[1] = Q THEN Tail(s) ELSE s
  IN  IF a # <<>> /\ a[Len(a)] = Q THEN SubSeq(a, 1, Len(a) - 1) ELSE a

\* The for loop of parseArgumentsManually over the pairs.
RECURSIVE PairsToArgs(_, _)
PairsToArgs(pairs, args) ==
  IF pairs = <<>> THEN args
  ELSE LET pair == pairs[1]
           colonIndex == IndexOf(pair, COLON, 1)
       IN  IF colonIndex > 1
           THEN PairsToArgs(Tail(pairs),
                  SetMember(args,
                    [k |-> RemoveAll(Trim(SubSeq(pair, 1, colonIndex - 1)), {Q}),
                     t |-> "str",
                     v |-> StripQuotes(Trim(Tail2(pair, colonIndex + 1)))]))
           ELSE PairsToArgs(Tail(pairs), args)

parseArgumentsManually(argsStr) ==
  PairsToArgs(splitArguments(Trim(RemoveAll(argsStr, {LB, RB}))), <<>>)

\* An object or null: [ok, mem].
Null == [ok |-> FALSE, mem |-> <<>>]

\* obj.arguments for the text argsStr that the arguments pattern captured,
\* strict being JSON.parse(argsStr).
ManualArguments(argsStr, strict) ==
  IF strict.ok THEN strict.v ELSE CanonObj(parseArgumentsManually(argsStr))

\* The object built from the three matches.
ManualObject(protocolMatch, toolMatch, argsMatch) ==
  IF protocolMatch.m /\ toolMatch.m /\ argsMatch.m
  THEN [ok |-> TRUE,
        mem |-> <<[k |-> <<"protocol">>, t |-> "str", v |-> protocolMatch.cap],
                  [k |-> <<"tool">>, t |-> "str", v |-> toolMatch.cap],
                  [k |-> <<"arguments">>, t |-> "obj",
                   v |-> ManualArguments(argsMatch.cap, JSONparse(argsMatch.cap))]>>]
  ELSE Null

manualKeyValueExtraction(text) ==
  ManualObject(MatchKeyString(text, "protocol"), MatchKeyString(text, "tool"),
               MatchArguments(text))

(***************************************************************************)
(* fuzzyJsonParse                                                          *)
(***************************************************************************)
\* s.replace(/\\c/g, "c"): every backslash followed by c becomes c.
RECURSIVE Unescape(_, _)
Unescape(s, c) ==
  IF s = <<>> THEN <<>>
  ELSE IF Len(s) >= 2 /\ s[1] = BS /\ s[2] = c
       THEN <<c>> \o Unescape(Tail(Tail(s)), c)
       ELSE <<s[1]>> \o Unescape(Tail(s), c)

\* obj being JSON.parse of the unescaped text.
FuzzyResult(jsonStr, obj) ==
  IF obj.ok THEN [ok |-> TRUE, mem |-> obj.mem] ELSE manualKeyValueExtraction(jsonStr)

fuzzyJsonParse(jsonStr) ==
  FuzzyResult(jsonStr, JSONparse(Unescape(Unescape(Unescape(jsonStr, LB), RB), Q)))

(***************************************************************************)
(* parseJsonObjects, extractAndExecuteTools, findToolRequestInResponse     *)
(***************************************************************************)
KeepAnyProtocol(obj) == IF obj.ok THEN <<obj.mem>> ELSE <<>>

\* The object that the candidate jsonStr contributes: <<obj>> or <<>>.
KeepModai(obj) == IF obj.ok /\ IsModai(obj.mem) THEN <<obj.mem>> ELSE <<>>

CollectedFromKeepsFailed(jsonStr, obj) ==
  IF obj.ok THEN KeepModai(obj)
  ELSE IF fuzzyJsonParse(jsonStr).ok THEN KeepModai(fuzzyJsonParse(jsonStr))
  ELSE <<Null.mem>>

\* try { JSON.parse } catch { fuzzyJsonParse }, obj being JSON.parse(jsonStr).
CollectedFrom(jsonStr, obj) ==
  IF obj.ok THEN KeepModai(obj) ELSE KeepModai(fuzzyJsonParse(jsonStr))

Collected(jsonStr) == CollectedFrom(jsonStr, JSONparse(jsonStr))

\* The while loop of parseJsonObjects from position i on; its body for the
\* brace at openBrace and the candidate jsonStr that starts there.
RECURSIVE ParseObjectsFrom(_, _, _)

ParseObjectsAtFront(text, objects, openBrace, jsonStr) ==
  ParseObjectsFrom(text,
                   IF jsonStr # <<>> THEN openBrace + Len(jsonStr) ELSE openBrace + 1,
                   IF jsonStr # <<>> THEN Collected(jsonStr) \o objects ELSE objects)

ParseObjectsAtStopsAtUnmatched(text, objects, openBrace, jsonStr) ==
  ParseObjectsFrom(text,
                   IF jsonStr # <<>> THEN openBrace + Len(jsonStr) ELSE Len(text) + 1,
                   IF jsonStr # <<>> THEN objects \o Collected(jsonStr) ELSE objects)

ParseObjectsAt(text, objects, openBrace, jsonStr) ==
  ParseObjectsFrom(text,
                   IF jsonStr # <<>> THEN openBrace + Len(jsonStr) ELSE openBrace + 1,
                   IF jsonStr # <<>> THEN objects \o Collected(jsonStr) ELSE objects)

ParseObjectsBrace(text, objects, openBrace) ==
  IF openBrace = 0 THEN objects
  ELSE ParseObjectsAt(text, objects, openBrace, extractJsonObject(text, openBrace))

ParseObjectsFrom(text, i, objects) ==
  IF i > Len(text) THEN objects
  ELSE ParseObjectsBrace(text, objects, IndexOf(text, LB, i))

parseJsonObjects(text) == ParseObjectsFrom(text, 1, <<>>)

IsRequestWithoutArguments(req) == IsModai(req) /\ Truthy(req, "tool")

\* The filter of extractAndExecuteTools.
IsRequest(req) == IsModai(req) /\ Truthy(req, "tool") /\ Truthy(req, "arguments")

extractAndExecuteTools(response) == SelectSeq(parseJsonObjects(response), IsRequest)

\* obj.tool === toolName, toolName a string.
HasTool(obj, toolName) ==
  LET f == Field(obj, "tool")
  IN  f # <<>> /\ f[1].t = "str" /\ f[1].v = toolName

\* <<>> stands for undefined.
\* toolObjects.find(...)
FindTool(toolObjects, toolName) ==
  IF \E i \in 1..Len(toolObjects) : HasTool(toolObjects[i], toolName)
  THEN <<toolObjects[Min({i \in 1..Len(toolObjects) : HasTool(toolObjects[i], toolName)})]>>
  ELSE <<>>

findToolRequestInResponse(response, toolName) ==
  FindTool(parseJsonObjects(response), toolName)

(***************************************************************************)
(* cleanToolsFromResponse                                                  *)
(***************************************************************************)
\* replace(/\n+/g, "\n")
RECURSIVE CollapseNewlines(_)
CollapseNewlines(s) ==
  IF s = <<>> THEN <<>>
  ELSE IF Len(s) >= 2 /\ s[1] = NL /\ s[2] = NL THEN CollapseNewlines(Tail(s))
  ELSE <<s[1]>> \o CollapseNewlines(Tail(s))

\* replace(/^\n|\n$/g, "")
StripNewline(s) ==
  LET a == IF s # <<>> /\ s[1] = NL THEN Tail(s) ELSE s
  IN  IF a # <<>> /\ a[Len(a)] = NL THEN SubSeq(a, 1, Len(a) - 1) ELSE a

\* The while loop of cleanToolsFromResponse from startIndex on; its body for
\* the brace at openBrace and the candidate jsonStr that starts there.
RECURSIVE CleanFrom(_, _)

CleanAt(cleaned, openBrace, jsonStr) ==
  IF jsonStr # <<>> /\ Collected(jsonStr) # <<>>
  THEN CleanFrom(SubSeq(cleaned, 1, openBrace - 1)
                   \o Tail2(cleaned, openBrace + Len(jsonStr)),
                 openBrace)
  ELSE CleanFrom(cleaned, openBrace + 1)

CleanBrace(cleaned, openBrace) ==
  IF openBrace = 0 THEN cleaned
  ELSE CleanAt(cleaned, openBrace, extractJsonObject(cleaned, openBrace))

CleanFrom(cleaned, startIndex) == CleanBrace(cleaned, IndexOf(cleaned, LB, startIndex))

cleanToolsFromResponse(response) ==
  Trim(StripNewline(CollapseNewlines(CleanFrom(response, 1))))

(***************************************************************************)
(* processRequest and the tools behind it.                                 *)
(***************************************************************************)
\* ToolRegistry.get: the names that have a tool registered.
Registered == {"exec"}

Undefined == [t |-> "undef", v |-> <<>>]

Str(w) == <<Q, w, Q>>

\* What one call of tool.execute may do: return a value, or throw.
ReturnOk ==
  [name |-> "returnOk", kind |-> "return", val |-> [t |-> "str", v |-> <<"ok">>],
   msg |-> <<>>]
ReturnFailure ==
  [name |-> "returnFailure", kind |-> "return",
   val |-> [t |-> "obj",
            v |-> CanonObj(<<[k |-> <<"success">>, t |-> "lit", v |-> <<"false">>],
                             [k |-> <<"error">>, t |-> "str", v |-> <<"boom">>]>>)],
   msg |-> <<>>]
ThrowError ==
  [name |-> "throwError", kind |-> "throwError", val |-> Undefined, msg |-> <<"boom">>]
ThrowOther ==
  [name |-> "throwOther", kind |-> "throwOther", val |-> Undefined, msg |-> <<"boom">>]
\* The tool returns the arguments it was called with.
ReturnEcho ==
  [name |-> "returnEcho", kind |-> "return", val |-> Undefined, msg |-> <<>>]
ToolBehaviours == {ReturnOk, ReturnFailure, ReturnEcho, ThrowError, ThrowOther}

\* The value tool.execute(args) resolves to when the tool behaves as beh.
ToolReturn(beh, args) == IF beh.name = "returnEcho" THEN args ELSE beh.val

\* `${request.tool}`
ToolText(req) == LET f == Field(req, "tool") IN IF f = <<>> THEN <<"undefined">> ELSE f[1].v

\* this.tools.get(request.tool) finds a tool.
ToolKnown(req) ==
  LET f == Field(req, "tool")
  IN  f # <<>> /\ f[1].t = "str" /\ Len(f[1].v) = 1 /\ f[1].v[1] \in Registered

\* processRequest reaches tool.execute.
Executes(req) == IsModai(req) /\ ToolKnown(req)

ExecuteWholeRequest(request) == [t |-> "obj", v |-> CanonObj(request)]

\* The argument of tool.execute(request.arguments).
ExecuteArguments(request) ==
  IF Field(request, "arguments") = <<>> THEN Undefined
  ELSE [t |-> Field(request, "arguments")[1].t, v |-> Field(request, "arguments")[1].v]

ProcessRethrows(request, beh) ==
  IF ~IsModai(request)
  THEN [success |-> FALSE, data |-> Undefined, error |-> <<"Invalid protocol">>, threw |-> FALSE]
  ELSE IF ~ToolKnown(request)
  THEN [success |-> FALSE, data |-> Undefined,
        error |-> <<"Unknown tool: ">> \o ToolText(request), threw |-> FALSE]
  ELSE IF beh.kind = "return"
  THEN [success |-> TRUE, data |-> ToolReturn(beh, ExecuteArguments(request)),
        error |-> <<>>, threw |-> FALSE]
  ELSE [success |-> FALSE, data |-> Undefined, error |-> beh.msg, threw |-> TRUE]

ProcessLosesMessage(request, beh) ==
  IF ~IsModai(request)
  THEN [success |-> FALSE, data |-> Undefined, error |-> <<"Invalid protocol">>, threw |-> FALSE]
  ELSE IF ~ToolKnown(request)
  THEN [success |-> FALSE, data |-> Undefined,
        error |-> <<"Unknown tool: ">> \o ToolText(request), threw |-> FALSE]
  ELSE IF beh.kind = "return"
  THEN [success |-> TRUE, data |-> ToolReturn(beh, ExecuteArguments(request)),
        error |-> <<>>, threw |-> FALSE]
  ELSE [success |-> FALSE, data |-> Undefined, error |-> <<"Unknown error">>, threw |-> FALSE]

\* processRequest(request) when tool.execute behaves as beh; threw tells
\* whether the promise is rejected.
processRequest(request, beh) ==
  IF ~IsModai(request)
  THEN [success |-> FALSE, data |-> Undefined, error |-> <<"Invalid protocol">>, threw |-> FALSE]
  ELSE IF ~ToolKnown(request)
  THEN [success |-> FALSE, data |-> Undefined,
        error |-> <<"Unknown tool: ">> \o ToolText(request), threw |-> FALSE]
  ELSE IF beh.kind = "return"
  THEN [success |-> TRUE, data |-> ToolReturn(beh, ExecuteArguments(request)),
        error |-> <<>>, threw |-> FALSE]
  ELSE IF beh.kind = "throwError"
  THEN [success |-> FALSE, data |-> Undefined, error |-> beh.msg, threw |-> FALSE]
  ELSE [success |-> FALSE, data |-> Undefined, error |-> <<"Unknown error">>, threw |-> FALSE]

\* What a call of processRequest resolves to when it has not resolved yet.
NoResult == [success |-> FALSE, data |-> Undefined, error |-> <<>>, threw |-> FALSE]

LooksUpAlways(request) == TRUE

\* processRequest reaches this.tools.get(request.tool).
LooksUp(request) == IsModai(request)

\* `${value}` of the right operand in the message of the TypeError that
\* `key in value` throws for a value that is no object.
InOperand(args) == IF args.t = "undef" THEN <<"undefined">> ELSE args.v

\* validateArgs(args, [key]): the message of the error it throws, <<>> when
\* it returns.
validateArgs(args, key) ==
  IF args.t = "obj"
  THEN IF Field(JSONparse(args.v).mem, key) # <<>> THEN <<>>
       ELSE <<"Missing required argument: ", key>>
  ELSE IF args.t = "arr" THEN <<"Missing required argument: ", key>>
  ELSE <<"Cannot use 'in' operator to search for '", key, "' in ">> \o InOperand(args)

\* A tool whose _execute begins with validateArgs(args, ["k"]) and then
\* returns "ok".
Validates ==
  [name |-> "validates", kind |-> "return", val |-> [t |-> "str", v |-> <<"ok">>],
   msg |-> <<>>]

\* What a tool that behaves as beh does when it is given args.
Behaves(beh, args) ==
  IF beh.name = "validates" /\ validateArgs(args, "k") # <<>>
  THEN [name |-> "validates", kind |-> "throwError", val |-> Undefined,
        msg |-> validateArgs(args, "k")]
  ELSE beh

\* What a tool may do in a call of processRequest.
ProcessBehaviours == ToolBehaviours \cup {Validates}

\* The calls of processRequest a run makes at most.
MaxCalls == 2

(***************************************************************************)
(* The texts handleChat builds.                                            *)
(***************************************************************************)
Spaces(n) == [i \in 1..n |-> SP]

\* JSON.stringify(value, null, 2) of the compact serialisation toks: st is
\* [depth, inString, escaped].
RECURSIVE PrettyFrom(_, _, _)
PrettyFrom(toks, i, st) ==
  IF i > Len(toks) THEN <<>>
  ELSE IF st.escaped
       THEN <<toks[i]>> \o PrettyFrom(toks, i + 1, [st EXCEPT !.escaped = FALSE])
  ELSE IF st.inString
       THEN <<toks[i]>>
            \o PrettyFrom(toks, i + 1, [st EXCEPT !.escaped = (toks[i] = BS),
                                                  !.inString = (toks[i] # Q)])
  ELSE IF toks[i] = Q
       THEN <<Q>> \o PrettyFrom(toks, i + 1, [st EXCEPT !.inString = TRUE])
  ELSE IF toks[i] \in {LB, LSQ}
       THEN IF i < Len(toks) /\ toks[i + 1] \in {RB, RSQ}
            THEN <<toks[i], toks[i + 1]>> \o PrettyFrom(toks, i + 2, st)
            ELSE <<toks[i], NL>> \o Spaces(2 * (st.depth + 1))
                 \o PrettyFrom(toks, i + 1, [st EXCEPT !.depth = st.depth + 1])
  ELSE IF toks[i] \in {RB, RSQ}
       THEN <<NL>> \o Spaces(2 * (st.depth - 1)) \o <<toks[i]>>
            \o PrettyFrom(toks, i + 1, [st EXCEPT !.depth = st.depth - 1])
  ELSE IF toks[i] = COMMA
       THEN <<COMMA, NL>> \o Spaces(2 * st.depth) \o PrettyFrom(toks, i + 1, st)
  ELSE IF toks[i] = COLON THEN <<COLON, SP>> \o PrettyFrom(toks, i + 1, st)
  ELSE <<toks[i]>> \o PrettyFrom(toks, i + 1, st)

PrettyObjectObject(data) == <<"[object Object]">>

\* JSON.stringify(data, null, 2) inside a template literal.
Pretty(data) ==
  IF data.t = "undef" THEN <<"undefined">>
  ELSE PrettyFrom(Canon(data.t, data.v), 1,
                  [depth |-> 0, inString |-> FALSE, escaped |-> FALSE])

\* JSON.stringify(toolRequest?.arguments || {}) for the object found by
\* findToolRequestInResponse (found is <<>> or <<obj>>).
ArgumentsText(found) ==
  IF found # <<>> /\ Truthy(found[1], "arguments")
  THEN LET f == Field(found[1], "arguments") IN Canon(f[1].t, f[1].v)
  ELSE <<LB, RB>>

\* The context line of one entry {tool, result} of toolResults.
ContextLine(response, entry) ==
  IF entry.result.success
  THEN <<"You executed ">> \o entry.tool
       \o <<" tool with these parameters: ">>
       \o ArgumentsText(findToolRequestInResponse(response, entry.tool))
       \o <<". The result was: ">> \o Pretty(entry.result.data)
  ELSE <<"Tool ">> \o entry.tool \o <<" failed: ">> \o entry.result.error

\* lines.join("\n")
RECURSIVE Join(_)
Join(lines) ==
  IF lines = <<>> THEN <<>>
  ELSE IF Len(lines) = 1 THEN lines[1]
  ELSE lines[1] \o <<NL>> \o Join(Tail(lines))

FollowUp(response, contexts) ==
  <<"You are in an agentic loop. You previously said: ", Q>> \o response
  \o <<Q, NL, NL, "This led to tool executions with the following results:", NL>>
  \o Join(contexts)
  \o <<NL, NL, "Now, decide the next step. You can call more tools or provide a final response to the user.">>

InitialPrompt(message) ==
  <<"You are an AI agent. When the user asks for multiple actions, provide all the tool calls in a single response. User request: ",
    message>>

Cancelled ==
  [success |-> FALSE, data |-> Undefined, error |-> <<"Tool execution cancelled by user.">>]

(***************************************************************************)
(* The texts the model runs on.                                            *)
(***************************************************************************)
\* {"protocol":"<p>","tool":"<t>","arguments":<args>}
Directive(p, t, args) ==
  <<LB>> \o Str("protocol") \o <<COLON>> \o Str(p) \o <<COMMA>> \o Str("tool")
  \o <<COLON>> \o Str(t) \o <<COMMA>> \o Str("arguments") \o <<COLON>> \o args \o <<RB>>

\* {"k":"<w>"}
FlatArgs(w) == <<LB>> \o Str("k") \o <<COLON>> \o Str(w) \o <<RB>>

\* {"k":"{v}\"}"}: a string value holding braces and an escaped quote.
BraceArgsPrefix == <<LB>> \o Str("k") \o <<COLON>>
BraceArgs == BraceArgsPrefix \o <<Q, LB, "v", RB, BS, Q, RB, Q>> \o <<RB>>

\* {"k":{"k":"v"}}
NestedArgs == <<LB>> \o Str("k") \o <<COLON>> \o FlatArgs("v") \o <<RB>>

DFlat == Directive("modai", "exec", FlatArgs("v"))
DBrace == Directive("modai", "exec", BraceArgs)
DNested == Directive("modai", "exec", NestedArgs)

\* {"protocol":"modai","tool":"exec"}
DNoArguments ==
  <<LB>> \o Str("protocol") \o <<COLON>> \o Str("modai") \o <<COMMA>> \o Str("tool")
  \o <<COLON>> \o Str("exec") \o <<RB>>

\* The pieces a text is put together from: prose, and well-formed directives.
ProseFragments ==
  << <<"hello">>, <<SP>>, <<NL>>, <<LB>>, <<RB>>, <<Q>>, <<BS>>,
     <<LB, Q, "k", Q, COLON>>, <<Q, RB>> >>
DirectiveFragments == <<DFlat, DBrace, DNested>>

\* {"protocol":<p>,"tool":<t>,"arguments":<args>}, the three values as written.
ObjectText(p, t, args) ==
  <<LB>> \o Str("protocol") \o <<COLON>> \o p \o <<COMMA>> \o Str("tool")
  \o <<COLON>> \o t \o <<COMMA>> \o Str("arguments") \o <<COLON>> \o args \o <<RB>>

\* Objects that are no directive: another protocol, or none.
OOther == Directive("other", "exec", FlatArgs("v"))
ONumberProtocol == ObjectText(<<"1">>, Str("exec"), FlatArgs("v"))
ONoProtocol ==
  <<LB>> \o Str("tool") \o <<COLON>> \o Str("exec") \o <<COMMA>> \o Str("arguments")
  \o <<COLON>> \o FlatArgs("v") \o <<RB>>
ForeignObjects == <<OOther, ONumberProtocol, ONoProtocol>>

\* Objects of the protocol whose tool or arguments are not what a directive
\* holds.
OStringArgs == ObjectText(Str("modai"), Str("exec"), Str("v"))
ONumberArgs == ObjectText(Str("modai"), Str("exec"), <<"1">>)
OTrueArgs == ObjectText(Str("modai"), Str("exec"), <<"true">>)
OListArgs == ObjectText(Str("modai"), Str("exec"), <<LSQ>> \o Str("v") \o <<RSQ>>)
ONullArgs == ObjectText(Str("modai"), Str("exec"), <<"null">>)
ONumberTool == ObjectText(Str("modai"), <<"1">>, FlatArgs("v"))
OEmptyTool == ObjectText(Str("modai"), <<Q, Q>>, FlatArgs("v"))
MistypedObjects ==
  <<DNoArguments, OStringArgs, ONumberArgs, OTrueArgs, OListArgs, ONullArgs,
    ONumberTool, OEmptyTool>>

\* An object whose protocol key stands twice, "other" being the value
\* JSON.parse keeps, and which holds an object of the protocol:
\* {"protocol":"modai","tool":"exec","arguments":{"k":"v"},
\*  "protocol":"other","x":{"protocol":"modai","tool":"exec"}}
ODuplicateProtocol ==
  <<LB>> \o Str("protocol") \o <<COLON>> \o Str("modai") \o <<COMMA>> \o Str("tool")
  \o <<COLON>> \o Str("exec") \o <<COMMA>> \o Str("arguments") \o <<COLON>>
  \o FlatArgs("v") \o <<COMMA>> \o Str("protocol") \o <<COLON>> \o Str("other")
  \o <<COMMA>> \o Str("x") \o <<COLON>> \o DNoArguments \o <<RB>>
NestingObjects == <<ODuplicateProtocol>>

\* Candidates that JSON.parse rejects: a comma after the arguments, with
\* arguments {"k":"v"} and with arguments {}, and arguments {hello}.
OTrailingComma == ObjectText(Str("modai"), Str("exec"), FlatArgs("v") \o <<COMMA>>)
OEmptyArgsComma == ObjectText(Str("modai"), Str("exec"), <<LB, RB, COMMA>>)
ONoPairArgs == ObjectText(Str("modai"), Str("exec"), <<LB, "hello", RB>>)
ONoToolComma ==
  <<LB>> \o Str("protocol") \o <<COLON>> \o Str("modai") \o <<COMMA>> \o Str("arguments")
  \o <<COLON>> \o FlatArgs("v") \o <<COMMA, RB>>
MalformedObjects == <<OTrailingComma, OEmptyArgsComma, ONoPairArgs, ONoToolComma>>

\* \"<w>\"
EStr(w) == <<BS, Q, w, BS, Q>>

\* A directive written with every quote escaped, its braces as given:
\* {\"protocol\":\"<p>\",\"tool\":\"exec\",\"arguments\":{\"k\":\"v\"}}
EncodedDirective(open, p, argsOpen, argsClose, close) ==
  open \o EStr("protocol") \o <<COLON>> \o EStr(p) \o <<COMMA>> \o EStr("tool")
  \o <<COLON>> \o EStr("exec") \o <<COMMA>> \o EStr("arguments") \o <<COLON>>
  \o argsOpen \o EStr("k") \o <<COLON>> \o EStr("v") \o argsClose \o close

\* The quotes escaped; the quotes and the inner braces escaped; the quotes
\* and every brace escaped; the quotes escaped, of another protocol.
EQuotes == EncodedDirective(<<LB>>, "modai", <<LB>>, <<RB>>, <<RB>>)
EInnerBraces == EncodedDirective(<<LB>>, "modai", <<BS, LB>>, <<BS, RB>>, <<RB>>)
EAllBraces == EncodedDirective(<<BS, LB>>, "modai", <<BS, LB>>, <<BS, RB>>, <<BS, RB>>)
EQuotesOther == EncodedDirective(<<LB>>, "other", <<LB>>, <<RB>>, <<RB>>)
EncodedObjects == <<EQuotes, EInnerBraces, EAllBraces, EQuotesOther>>

Fragments ==
  ProseFragments \o DirectiveFragments \o ForeignObjects \o MistypedObjects
  \o NestingObjects \o MalformedObjects \o EncodedObjects
IsDirectiveFragment(f) ==
  f > Len(ProseFragments) /\ f <= Len(ProseFragments) + Len(DirectiveFragments)
IsForeignFragment(f) ==
  /\ f > Len(ProseFragments) + Len(DirectiveFragments)
  /\ f <= Len(ProseFragments) + Len(DirectiveFragments) + Len(ForeignObjects)
IsObjectFragment(f) == f > Len(ProseFragments)

\* The fragments of the texts of prose and directives, and the fragments of
\* the texts of plain words and objects of every kind.
TextFragments == 1..(Len(ProseFragments) + Len(DirectiveFragments))
PlainProse == {f \in 1..Len(ProseFragments) : Fragments[f] \in {<<"hello">>, <<SP>>, <<NL>>}}
ObjectPieces ==
  PlainProse
  \cup {f \in 1..(Len(ProseFragments) + Len(DirectiveFragments) + Len(ForeignObjects)
                    + Len(MistypedObjects)) : IsObjectFragment(f)}

\* The fragments of the texts of plain words and one candidate that is
\* not a plain object: one holding another object, or one that JSON.parse
\* rejects.
IsNestingFragment(f) ==
  /\ f > Len(ProseFragments) + Len(DirectiveFragments) + Len(ForeignObjects)
          + Len(MistypedObjects)
  /\ f <= Len(ProseFragments) + Len(DirectiveFragments) + Len(ForeignObjects)
           + Len(MistypedObjects) + Len(NestingObjects)
IsMalformedFragment(f) ==
  /\ f > Len(ProseFragments) + Len(DirectiveFragments) + Len(ForeignObjects)
          + Len(MistypedObjects) + Len(NestingObjects)
  /\ f <= Len(Fragments) - Len(EncodedObjects)
IsEncodedFragment(f) == f > Len(Fragments) - Len(EncodedObjects) /\ f <= Len(Fragments)
RecoverPieces ==
  PlainProse
  \cup {f \in 1..Len(Fragments) :
          IsNestingFragment(f) \/ IsMalformedFragment(f) \/ IsEncodedFragment(f)}

\* The requests processRequest is called with: the objects of the texts,
\* and a directive for a tool that is not registered.
DDice == Directive("modai", "dice", FlatArgs("v"))
DOtherKey ==
  Directive("modai", "exec", <<LB>> \o Str("j") \o <<COLON>> \o Str("v") \o <<RB>>)
ProcessRequests ==
  {JSONparse(o).mem :
     o \in Range(DirectiveFragments) \cup Range(ForeignObjects) \cup Range(MistypedObjects)
            \cup {DDice, DOtherKey}}

\* The longest text, in fragments.
MaxFragments == 3

\* The longest text of plain words and objects, in fragments.
MaxPieces == 2

\* What the provider may answer.
RProse == <<"All", SP, "done">>
RNoArguments == <<"Sure", NL, NL, NL>> \o DNoArguments \o <<NL, SP>>
RTwoTools ==
  <<"Sure", SP>> \o DFlat \o Directive("modai", "dice", FlatArgs("v"))
RSameTool == DFlat \o <<SP>> \o Directive("modai", "exec", FlatArgs("other"))
Responses == {RProse, RNoArguments, RTwoTools, RSameTool}

\* The lines the user may type: commands, an empty line and a chat message.
ChatLines == {"hi"}
CommandLines == {"/help", ""}
QuitLines == {"/quit", "/exit"}

\* No new chat is typed once the history has this many entries.
MaxHistory == 2

maxTurns == 5

\* toolContexts after the loop over toolResults.
ContextLines(response, results) ==
  [i \in 1..Len(results) |->
     ContextLine(response, results[i])]

(***************************************************************************)
(* /install and /update: the tools installed under ~/.modai.               *)
(***************************************************************************)
\* The tools that can be installed, named as their repository is.
ToolNames == {"alpha", "beta"}

\* The versions a repository goes through.
MaxVersion == 2

InstallLines == {"/install alpha", "/install beta"}
UpdateLines == {"/update", "/update alpha", "/update beta"}

\* line.substring(9) of an /install line, line.substring(8).trim() of an
\* /update line.
CommandArgument(l) ==
  CASE l \in {"/install alpha", "/update alpha"} -> "alpha"
    [] l \in {"/install beta", "/update beta"} -> "beta"
    [] OTHER -> ""

\* The arguments executeUpdate(repo) puts in its request: a mapping from
\* names to strings.
UpdateRequestArguments(repo) ==
  IF repo # "" THEN [key \in {"repo"} |-> repo] ELSE [key \in {} |-> ""]

\* args[key], "" standing for undefined.
ArgumentOf(args, key) == IF key \in DOMAIN args THEN args[key] ELSE ""

\* toolsToUpdate of UpdateTool._execute(args), installed giving the version
\* of each installed tool.
toolsToUpdate(args, installed) ==
  IF ArgumentOf(args, "toolName") # ""
  THEN {t \in ToolNames : t = ArgumentOf(args, "toolName") /\ installed[t] > 0}
  ELSE {t \in ToolNames : installed[t] > 0}

\* The installed versions after the loop over toolsToUpdate.
Updated(tools, installed, remote) ==
  [t \in ToolNames |->
     IF t \in tools /\ remote[t] > installed[t] THEN remote[t] ELSE installed[t]]

(***************************************************************************)
(* State.                                                                  *)
(***************************************************************************)
VARIABLES
  parts,            \* the fragments text is made of
  text,             \* the text given to the extractor
  textPc,           \* "build", "extracted", "cleaned"
  extracted,        \* extractAndExecuteTools(text)
  cleaned,          \* cleanToolsFromResponse(text)
  cliPc,            \* ModaiCLI.start: "prompt", "awaitChat", "exited", "crashed"
  line,             \* the line read last
  pc,               \* handleChat: "idle", "chat", "confirm", "invoke", "followup"
  turn,             \* the loop variable of handleChat
  response,
  toolRequests,
  idx,              \* the place of the for-of loop in toolRequests
  toolResults,
  toolContexts,
  followUpMessage,
  messageHistory,
  historyAtCall,    \* the length of messageHistory when handleChat was called
  passed,           \* the history handed to the provider by the call under way
  inFlight,         \* the directives whose processRequest has not settled
  outcome,          \* "NONE", "DONE", "ABORTED_MAX_TURNS", "ERROR"
  answer,           \* what is shown in the answer box
  hcResult,         \* how handleChat ended for its caller
  iterations,       \* extractions done by this handleChat
  providerCalls,    \* provider calls made by this handleChat
  confirmed,        \* the directives of this turn the user has confirmed
  invoked,          \* the directives of this turn whose tool was executed
  behaviours,       \* what became of each directive of this turn so far
  installedTools,   \* the version in ~/.modai/<name>.tool.json, 0 if no such file
  remoteVersion,    \* the version in modai.tool.json of the tool's repository
  updateArgument,   \* the argument of the last /update, "none" before the first
  updateInstalled,  \* the tools that were installed when the last /update ran
  updateChecked,    \* the tools the last /update looked up in their repository
  prPc,             \* processRequest: "idle", "executing", "done"
  prCalls,          \* the calls of processRequest made so far
  prRequest,        \* the request of the last call
  prLookedUp,       \* the last call has asked the registry for a tool
  prInvoked,        \* the last call has called execute of a tool
  prBehaviour,      \* what the tool of the last call did, by name
  prResult          \* what the last call resolved to

textVars == <<parts, text, textPc, extracted, cleaned>>
cliVars == <<cliPc, line>>
turnVars == <<toolRequests, idx, toolResults, toolContexts, followUpMessage,
              inFlight, confirmed, invoked, behaviours>>
chatVars == <<pc, turn, response, messageHistory, outcome, answer, hcResult,
              iterations, providerCalls, historyAtCall, passed>>
updateVars == <<installedTools, remoteVersion, updateArgument, updateInstalled,
                updateChecked>>
processVars == <<prPc, prCalls, prRequest, prLookedUp, prInvoked, prBehaviour,
                 prResult>>
vars == <<textVars, cliVars, turnVars, chatVars, updateVars, processVars>>

Init ==
  /\ parts = <<>> /\ text = <<>> /\ textPc = "build"
  /\ extracted = <<>> /\ cleaned = <<>>
  /\ cliPc = "prompt" /\ line = ""
  /\ pc = "idle" /\ turn = 0 /\ response = <<>>
  /\ toolRequests = <<>> /\ idx = 1 /\ toolResults = <<>>
  /\ toolContexts = <<>> /\ followUpMessage = <<>>
  /\ messageHistory = <<>> /\ inFlight = {}
  /\ historyAtCall = 0 /\ passed = <<>>
  /\ outcome = "NONE" /\ answer = <<>> /\ hcResult = "none"
  /\ iterations = 0 /\ providerCalls = 0
  /\ confirmed = {} /\ invoked = <<>> /\ behaviours = <<>>
  /\ installedTools = [t \in ToolNames |-> 0]
  /\ remoteVersion = [t \in ToolNames |-> 1]
  /\ updateArgument = "none" /\ updateInstalled = {} /\ updateChecked = {}
  /\ prPc = "idle" /\ prCalls = 0 /\ prRequest = <<>>
  /\ prLookedUp = FALSE /\ prInvoked = FALSE /\ prBehaviour = "none"
  /\ prResult = NoResult

(***************************************************************************)
(* The extractor applied to a text.                                        *)
(***************************************************************************)
AppendFragment(f) ==
  /\ textPc = "build"
  /\ Len(parts) < MaxFragments
  /\ parts' = Append(parts, f)
  /\ text' = text \o Fragments[f]
  /\ UNCHANGED <<textPc, extracted, cleaned, cliVars, turnVars, chatVars, updateVars, processVars>>

ExtractText ==
  /\ textPc = "build"
  /\ extracted' = extractAndExecuteTools(text)
  /\ textPc' = "extracted"
  /\ UNCHANGED <<parts, text, cleaned, cliVars, turnVars, chatVars, updateVars, processVars>>

CleanText ==
  /\ textPc = "extracted"
  /\ cleaned' = cleanToolsFromResponse(text)
  /\ textPc' = "cleaned"
  /\ UNCHANGED <<parts, text, extracted, cliVars, turnVars, chatVars, updateVars, processVars>>

NextText ==
  \/ \E f \in TextFragments : AppendFragment(f)
  \/ ExtractText
  \/ CleanText

SpecText == Init /\ [][NextText]_vars

\* A text of plain words and objects of every kind.
AppendPiece(f) ==
  /\ textPc = "build"
  /\ Len(parts) < MaxPieces
  /\ parts' = Append(parts, f)
  /\ text' = text \o Fragments[f]
  /\ UNCHANGED <<textPc, extracted, cleaned, cliVars, turnVars, chatVars, updateVars, processVars>>

NextObject ==
  \/ \E f \in ObjectPieces : AppendPiece(f)
  \/ ExtractText
  \/ CleanText

SpecObject == Init /\ [][NextObject]_vars

\* A text of plain words and at most one candidate that is not a plain
\* object.
AppendCandidate(f) ==
  /\ textPc = "build"
  /\ Len(parts) < MaxPieces
  /\ f \in PlainProse \/ \A i \in 1..Len(parts) : parts[i] \in PlainProse
  /\ parts' = Append(parts, f)
  /\ text' = text \o Fragments[f]
  /\ UNCHANGED <<textPc, extracted, cleaned, cliVars, turnVars, chatVars, updateVars, processVars>>

NextRecover ==
  \/ \E f \in RecoverPieces : AppendCandidate(f)
  \/ ExtractText
  \/ CleanText

SpecRecover == Init /\ [][NextRecover]_vars

(***************************************************************************)
(* ModaiCLI.start and ModaiCLI.handleChat.  An action is the code between  *)
(* two awaits.                                                             *)
(***************************************************************************)
\* start() does not read a line while it awaits handleChat.
NoAwait == "prompt"

\* await this.handleChat(line)
AfterCall == "awaitChat"

LoopContinuesOffByOne(t) == t <= maxTurns

\* The condition of the for loop of handleChat.
LoopContinues(t) == t < maxTurns

FinalAnswerRaw(resp) == resp

\* The text of the answer box when a response holds no tool request.
FinalAnswer(resp) == cleanToolsFromResponse(resp)

PushFront(results, entry) == <<entry>> \o results

\* toolResults.push(entry)
Push(results, entry) == Append(results, entry)

RememberOnlyLast(history, role, content) ==
  <<[role |-> role, content |-> content]>>

\* this.messageHistory.push({ role, content })
Remember(history, role, content) ==
  Append(history, [role |-> role, content |-> content])

chatWithContextStores(history, context) ==
  [temporaryHistory |-> Append(history, [role |-> "user", content |-> context]),
   messageHistory |-> Append(history, [role |-> "user", content |-> context])]

\* chatWithContext up to its provider call: the history it hands to the
\* provider, and this.messageHistory as it leaves it.
chatWithContext(history, context) ==
  [temporaryHistory |-> Append(history, [role |-> "user", content |-> context]),
   messageHistory |-> history]

ProceedsAlways(yes) == TRUE

\* if (confirmed)
Proceeds(yes) == yes

CatchRethrows == "threw"

\* The catch clause of handleChat reports the error and returns.
Catch == "returned"

\* handleChat has ended: start() goes on to its next prompt, or ends with
\* the error handleChat threw.
ReturnToStart(how) ==
  /\ pc' = "idle"
  /\ hcResult' = how
  /\ cliPc' = IF how = "threw" THEN "crashed" ELSE "prompt"

LoopExitExaminesResponse(resp) ==
  IF extractAndExecuteTools(resp) = <<>> THEN "DONE" ELSE "ABORTED_MAX_TURNS"

\* The code after the for loop: the warning, whatever the last response holds.
LoopExit(resp) == "ABORTED_MAX_TURNS"

\* The top of the for loop once the response of the turn is known: the
\* extraction, and either the end of handleChat or the first confirmation.
LoopHead(t, resp) ==
  /\ turn' = t
  /\ response' = resp
  /\ toolResults' = <<>>
  /\ toolContexts' = <<>>
  /\ followUpMessage' = <<>>
  /\ confirmed' = {}
  /\ invoked' = <<>>
  /\ behaviours' = <<>>
  /\ idx' = 1
  /\ UNCHANGED <<inFlight, providerCalls>>
  /\ IF LoopContinues(t)
     THEN /\ toolRequests' = extractAndExecuteTools(resp)
          /\ iterations' = iterations + 1
          /\ IF toolRequests' = <<>>
             THEN /\ answer' = FinalAnswer(resp)
                  /\ outcome' = "DONE"
                  /\ ReturnToStart("returned")
             ELSE /\ pc' = "confirm"
                  /\ UNCHANGED <<answer, outcome, hcResult, cliPc>>
     ELSE /\ toolRequests' = <<>>
          /\ outcome' = LoopExit(resp)
          /\ ReturnToStart("returned")
          /\ UNCHANGED <<answer, iterations>>

\* The code that follows the push of a result for toolRequests[idx]: the
\* next confirmation, or the follow-up message and the call of
\* chatWithContext.
AfterPush(results) ==
  /\ toolResults' = results
  /\ idx' = idx + 1
  /\ IF idx < Len(toolRequests)
     THEN /\ pc' = "confirm"
          /\ UNCHANGED <<toolContexts, followUpMessage, providerCalls, messageHistory,
                         passed>>
     ELSE /\ toolContexts' = ContextLines(response, results)
          /\ followUpMessage' = FollowUp(response, toolContexts')
          /\ messageHistory' = chatWithContext(messageHistory, followUpMessage').messageHistory
          /\ passed' = chatWithContext(messageHistory, followUpMessage').temporaryHistory
          /\ providerCalls' = providerCalls + 1
          /\ pc' = "followup"

\* A line that is a command or empty: start() handles it and prompts again.
ReadCommand(l) ==
  /\ cliPc = "prompt"
  /\ l \in CommandLines
  /\ line' = l
  /\ UNCHANGED <<cliPc, textVars, updateVars, processVars, turnVars, chatVars>>

\* /quit or /exit
ReadQuit(l) ==
  /\ cliPc = "prompt"
  /\ l \in QuitLines
  /\ line' = l
  /\ cliPc' = "exited"
  /\ UNCHANGED <<textVars, updateVars, processVars, turnVars, chatVars>>

\* Any other line: handleChat(line) up to the provider call of chat().
ReadChat(l) ==
  /\ cliPc = "prompt"
  /\ l \in ChatLines
  /\ Len(messageHistory) < MaxHistory
  /\ line' = l
  /\ cliPc' = AfterCall
  /\ pc' = "chat"
  /\ historyAtCall' = Len(messageHistory)
  /\ messageHistory' = Remember(messageHistory, "user", InitialPrompt(l))
  /\ passed' = messageHistory'
  /\ turn' = 0
  /\ response' = <<>>
  /\ outcome' = "NONE"
  /\ answer' = <<>>
  /\ hcResult' = "none"
  /\ iterations' = 0
  /\ providerCalls' = 1
  /\ toolRequests' = <<>> /\ idx' = 1 /\ toolResults' = <<>>
  /\ toolContexts' = <<>> /\ followUpMessage' = <<>>
  /\ confirmed' = {} /\ invoked' = <<>> /\ behaviours' = <<>>
  /\ UNCHANGED <<inFlight, textVars, updateVars, processVars>>

\* The provider answers r: chat() or chatWithContext() stores it, and
\* handleChat goes on to the top of its loop.
ProviderReply(r) ==
  /\ pc \in {"chat", "followup"}
  /\ messageHistory' = Remember(messageHistory, "assistant", r)
  /\ LoopHead(IF pc = "chat" THEN 0 ELSE turn + 1, r)
  /\ passed' = <<>>
  /\ UNCHANGED <<line, textVars, updateVars, processVars, historyAtCall>>

\* The provider call fails: the catch clause of handleChat.
ProviderFail ==
  /\ pc \in {"chat", "followup"}
  /\ outcome' = "ERROR"
  /\ ReturnToStart(Catch)
  /\ UNCHANGED <<line, textVars, updateVars, processVars, turnVars, turn, response, messageHistory, answer,
                 iterations, providerCalls, historyAtCall>>
  /\ passed' = <<>>

\* The user answers the confirmation of toolRequests[idx].
Confirm(yes) ==
  /\ pc = "confirm"
  /\ IF Proceeds(yes)
     THEN /\ confirmed' = IF yes THEN confirmed \cup {idx} ELSE confirmed
          /\ inFlight' = inFlight \cup {idx}
          /\ invoked' = IF Executes(toolRequests[idx]) THEN Append(invoked, idx) ELSE invoked
          /\ pc' = "invoke"
          /\ UNCHANGED <<idx, toolResults, toolContexts, followUpMessage, providerCalls,
                         behaviours, messageHistory, passed>>
     ELSE /\ AfterPush(Push(toolResults,
                            [tool |-> ToolText(toolRequests[idx]), result |-> Cancelled]))
          /\ behaviours' = Append(behaviours, "declined")
          /\ UNCHANGED <<confirmed, inFlight, invoked>>
  /\ UNCHANGED <<toolRequests, cliVars, textVars, updateVars, processVars, turn, response,
                 outcome, answer, hcResult, iterations, historyAtCall>>

\* processRequest(toolRequests[idx]) settles, the tool having behaved as beh.
ToolSettles(beh) ==
  /\ pc = "invoke"
  /\ Executes(toolRequests[idx]) \/ beh = ReturnOk
  /\ LET r == processRequest(toolRequests[idx], beh)
         result == IF r.threw
                   THEN [success |-> FALSE, data |-> Undefined, error |-> r.error]
                   ELSE [success |-> r.success, data |-> r.data, error |-> r.error]
     IN  AfterPush(Push(toolResults,
                        [tool |-> ToolText(toolRequests[idx]), result |-> result]))
  /\ inFlight' = inFlight \ {idx}
  /\ behaviours' = Append(behaviours,
                           IF Executes(toolRequests[idx]) THEN beh.name ELSE "notExecuted")
  /\ UNCHANGED <<confirmed, invoked, toolRequests, cliVars, textVars, updateVars, processVars, turn, response,
                 outcome, answer, hcResult, iterations, historyAtCall>>

Next ==
  \/ \E l \in CommandLines : ReadCommand(l)
  \/ \E l \in QuitLines : ReadQuit(l)
  \/ \E l \in ChatLines : ReadChat(l)
  \/ \E r \in Responses : ProviderReply(r)
  \/ ProviderFail
  \/ \E yes \in BOOLEAN : Confirm(yes)
  \/ \E beh \in ToolBehaviours : ToolSettles(beh)

Spec == Init /\ [][Next]_vars

(***************************************************************************)
(* The commands /install and /update.                                      *)
(***************************************************************************)
\* /install <repo>: the tool is installed at the version of its repository.
ReadInstall(l) ==
  /\ cliPc = "prompt"
  /\ pc = "idle"
  /\ line' = l
  /\ installedTools' = [installedTools EXCEPT ![CommandArgument(l)] = remoteVersion[CommandArgument(l)]]
  /\ UNCHANGED <<cliPc, remoteVersion, updateArgument, updateInstalled, updateChecked,
                 textVars, turnVars, chatVars, processVars>>

\* /update [repo]: executeUpdate, processRequest and UpdateTool._execute.
ReadUpdate(l) ==
  /\ cliPc = "prompt"
  /\ pc = "idle"
  /\ line' = l
  /\ updateArgument' = CommandArgument(l)
  /\ updateInstalled' = {t \in ToolNames : installedTools[t] > 0}
  /\ updateChecked' = toolsToUpdate(UpdateRequestArguments(CommandArgument(l)), installedTools)
  /\ installedTools' = Updated(updateChecked', installedTools, remoteVersion)
  /\ UNCHANGED <<cliPc, remoteVersion, textVars, turnVars, chatVars, processVars>>

\* The repository of tool t publishes its next version.
RemotePublishes(t) ==
  /\ remoteVersion[t] < MaxVersion
  /\ remoteVersion' = [remoteVersion EXCEPT ![t] = @ + 1]
  /\ UNCHANGED <<installedTools, updateArgument, updateInstalled, updateChecked,
                 textVars, cliVars, turnVars, chatVars, processVars>>

NextUpdate ==
  \/ \E l \in InstallLines : ReadInstall(l)
  \/ \E l \in UpdateLines : ReadUpdate(l)
  \/ \E t \in ToolNames : RemotePublishes(t)

SpecUpdate == Init /\ [][NextUpdate]_vars

(***************************************************************************)
(* processRequest called on its own, as executeInstall and the other       *)
(* commands of the CLI call it.                                            *)
(***************************************************************************)
ProcessUnchanged == UNCHANGED <<textVars, cliVars, turnVars, chatVars, updateVars>>

\* processRequest(request) up to its return or to the await of
\* tool.execute.
ProcessStart(request) ==
  /\ prPc \in {"idle", "done"}
  /\ prCalls < MaxCalls
  /\ prCalls' = prCalls + 1
  /\ prRequest' = request
  /\ prLookedUp' = LooksUp(request)
  /\ prInvoked' = Executes(request)
  /\ prBehaviour' = "none"
  /\ IF Executes(request)
     THEN prPc' = "executing" /\ prResult' = NoResult
     ELSE prPc' = "done" /\ prResult' = processRequest(request, ReturnOk)
  /\ ProcessUnchanged

\* tool.execute settles, the tool having behaved as beh: processRequest
\* resolves.
ProcessSettles(beh) ==
  /\ prPc = "executing"
  /\ prPc' = "done"
  /\ prResult' = processRequest(prRequest, Behaves(beh, ExecuteArguments(prRequest)))
  /\ prBehaviour' = beh.name
  /\ UNCHANGED <<prCalls, prRequest, prLookedUp, prInvoked>>
  /\ ProcessUnchanged

NextProcess ==
  \/ \E request \in ProcessRequests : ProcessStart(request)
  \/ \E beh \in ProcessBehaviours : ProcessSettles(beh)

SpecProcess == Init /\ [][NextProcess]_vars

(***************************************************************************)
(* Properties of the extractor.                                            *)
(***************************************************************************)
\* The position in text at which fragment number i starts.
RECURSIVE FragmentStart(_)
FragmentStart(i) ==
  IF i <= 1 THEN 1 ELSE FragmentStart(i - 1) + Len(Fragments[parts[i - 1]])

DirectivePlaces == {i \in 1..Len(parts) : IsDirectiveFragment(parts[i])}

\* Two parsed objects have the same members, in any order.
SameObject(a, b) == Range(a) = Range(b)

\* C9 (as claimed): a text that holds exactly one well-formed directive,
\* whatever the prose around it, is extracted to exactly that directive as
\* JSON.parse reads it.
C9_OneDirectiveWhateverProse ==
  (textPc # "build" /\ Cardinality(DirectivePlaces) = 1)
    => LET d == Fragments[parts[CHOOSE i \in DirectivePlaces : TRUE]]
       IN  /\ Len(extracted) = 1
           /\ SameObject(extracted[1], JSONparse(d).mem)

\* The places of DBrace that lie inside its quoted argument value.
InsideQuotedValue == (Len(DBrace) - 8)..(Len(DBrace) - 3)

\* C10: scanning from the opening brace of a directive whose argument value
\* is a quoted string with braces in it ends at the directive's own closing
\* brace, the braces inside the string leave the nesting counter as it is,
\* and (no brace standing before the directive) the directive is extracted
\* as JSON.parse reads it.
C10_QuotedBracesDoNotEndScan ==
  \A i \in 1..Len(parts) :
    Fragments[parts[i]] = DBrace =>
      LET p == FragmentStart(i)
      IN  /\ extractJsonObject(text, p) = DBrace
          /\ \A o \in InsideQuotedValue :
               DBrace[o] \in {LB, RB} =>
                 ScanStateAt(text, p, p + o).braceCount
                   = ScanStateAt(text, p, p + o - 1).braceCount
          /\ (textPc # "build" /\ IndexOf(text, LB, 1) = p)
               => /\ extracted # <<>>
                  /\ extracted[1] = JSONparse(DBrace).mem

\* C10 witness: the directive with the quoted braces stands between two other
\* fragments and has been extracted.
C10_Witness ==
  /\ textPc = "extracted"
  /\ Len(parts) = 3
  /\ Fragments[parts[2]] = DBrace
  /\ Fragments[parts[3]] = <<RB>>
  /\ IndexOf(text, LB, 1) = FragmentStart(2)
  /\ extracted = <<JSONparse(DBrace).mem>>
  /\ \E o \in InsideQuotedValue : DBrace[o] = RB

(***************************************************************************)
(* Properties of handleChat.                                               *)
(***************************************************************************)
\* sub occurs in s as a run of consecutive tokens.
Contains(s, sub) ==
  \E i \in 0..(Len(s) - Len(sub)) : SubSeq(s, i + 1, i + Len(sub)) = sub

CancelLine(j) ==
  <<"Tool ">> \o ToolText(toolRequests[j])
  \o <<" failed: ", "Tool execution cancelled by user.">>

\* C1: one handleChat extracts at most 5 times and makes at most 6 provider
\* calls; once the fifth follow-up has been answered it ends in the max-turns
\* outcome, which is reached in no other way; and handleChat never throws.
C1_AtMostFiveIterations ==
  /\ iterations <= 5
  /\ turn <= 5
  /\ providerCalls <= 6
  /\ hcResult # "threw"
  /\ cliPc # "crashed"
  /\ turn = 5 => (outcome = "ABORTED_MAX_TURNS" /\ pc = "idle")
  /\ outcome = "ABORTED_MAX_TURNS"
       => (iterations = 5 /\ turn = 5 /\ providerCalls = 6 /\ hcResult = "returned")

\* C1 witness: five turns with directives have run and handleChat has
\* stopped with the warning.
C1_Witness ==
  /\ outcome = "ABORTED_MAX_TURNS"
  /\ iterations = 5
  /\ pc = "idle"
  /\ cliPc = "prompt"
  /\ extractAndExecuteTools(response) # <<>>

\* C2: a response examined by the loop that yields no directive ends
\* handleChat in DONE at once, with no tool invoked, no further provider
\* call, and cleanToolsFromResponse(response) as the answer.
C2_NoDirectiveEndsInDone ==
  /\ (iterations > 0 /\ turn < 5 /\ extractAndExecuteTools(response) = <<>>)
       => (outcome = "DONE" /\ pc = "idle")
  /\ outcome = "DONE"
       => /\ pc = "idle"
          /\ hcResult = "returned"
          /\ extractAndExecuteTools(response) = <<>>
          /\ toolRequests = <<>> /\ toolResults = <<>>
          /\ invoked = <<>> /\ confirmed = {} /\ inFlight = {}
          /\ providerCalls = turn + 1
          /\ iterations = turn + 1
          /\ answer = cleanToolsFromResponse(response)

\* C2 witness: the second response holds a protocol object without arguments,
\* which yields no directive and is stripped from the answer.
C2_Witness ==
  /\ outcome = "DONE"
  /\ turn = 1
  /\ response = RNoArguments
  /\ answer = <<"Sure">>

\* C3: the directives of a turn are handled one at a time in the order of
\* extraction (the confirmation of a directive starts when the results of
\* all earlier ones are recorded), and the context lines keep that order.
C3_SequentialInExtractionOrder ==
  /\ Len(toolResults) = Len(behaviours)
  /\ pc \in {"confirm", "invoke"}
       => (idx = Len(toolResults) + 1 /\ idx <= Len(toolRequests))
  /\ inFlight \subseteq {idx}
  /\ \A j \in 1..Len(toolResults) :
       /\ j <= Len(toolRequests)
       /\ toolResults[j].tool = ToolText(toolRequests[j])
       /\ (behaviours[j] = "declined") = (toolResults[j].result = Cancelled)
  /\ \A a, b \in 1..Len(invoked) : a < b => invoked[a] < invoked[b]
  /\ pc = "followup"
       => /\ Len(toolContexts) = Len(toolRequests)
          /\ \A j \in 1..Len(toolContexts) :
               /\ toolContexts[j][2] = ToolText(toolRequests[j])[1]
               /\ (behaviours[j] = "declined") = (toolContexts[j] = CancelLine(j))

\* C3 witness: two directives naming different tools, the first executed and
\* the second declined, with their lines in that order.
C3_Witness ==
  /\ pc = "followup"
  /\ response = RTwoTools
  /\ behaviours = <<"returnOk", "declined">>
  /\ toolContexts[1][2] = "exec"
  /\ toolContexts[2] = CancelLine(2)

\* C4: a tool is executed for a directive only after the user has confirmed
\* that directive; a declined directive is not executed, its result is the
\* cancellation failure, and the directives after it are still handled.
C4_ConfirmedBeforeInvoked ==
  /\ Range(invoked) \subseteq confirmed
  /\ inFlight \subseteq confirmed
  /\ \A j \in 1..Len(behaviours) :
       IF j \in confirmed
       THEN behaviours[j] # "declined"
       ELSE /\ behaviours[j] = "declined"
            /\ j \notin Range(invoked)
            /\ toolResults[j].result
                 = [success |-> FALSE, data |-> Undefined,
                    error |-> <<"Tool execution cancelled by user.">>]
  /\ (Len(behaviours) < Len(toolRequests) /\ outcome = "NONE")
       => pc \in {"confirm", "invoke"}

\* C4 witness: the first directive was declined and the second one confirmed
\* and executed.
C4_Witness ==
  /\ pc = "followup"
  /\ behaviours = <<"declined", "returnOk">>
  /\ invoked = <<2>>
  /\ confirmed = {2}

\* C5: a tool that throws yields a failed result carrying the message of the
\* error, its failure line is part of the follow-up message, handleChat goes
\* on with the rest of the directives and calls the provider again.
C5_ThrowBecomesFailedResult ==
  \A j \in 1..Len(behaviours) :
    behaviours[j] \in {"throwError", "throwOther"} =>
      /\ toolResults[j].result.success = FALSE
      /\ behaviours[j] = "throwError" => toolResults[j].result.error = <<"boom">>
      /\ hcResult # "threw"
      /\ pc \in {"confirm", "invoke", "followup"} \/ (pc = "idle" /\ outcome = "ERROR")
      /\ pc \in {"followup", "idle"}
           => /\ Len(toolResults) = Len(toolRequests)
              /\ providerCalls = turn + 2
              /\ toolContexts[j]
                   = <<"Tool ">> \o toolResults[j].tool \o <<" failed: ">>
                     \o toolResults[j].result.error
              /\ Contains(followUpMessage, toolContexts[j])

\* C5 witness: the first tool threw an Error, the second directive was still
\* executed and the follow-up was sent.
C5_Witness ==
  /\ pc = "followup"
  /\ behaviours = <<"throwError", "returnOk">>
  /\ toolContexts[1] = <<"Tool ", "exec", " failed: ", "boom">>

\* C6: when every tool of a turn returned {success:false, error:"boom"},
\* handleChat still sends the follow-up, every context line and the
\* follow-up message hold the text boom, and nothing is thrown.
C6_ReturnedFailureReachesFollowUp ==
  (/\ behaviours # <<>>
   /\ Len(behaviours) = Len(toolRequests)
   /\ \A j \in 1..Len(behaviours) : behaviours[j] = "returnFailure")
    => /\ pc = "followup" \/ (pc = "idle" /\ outcome = "ERROR")
       /\ providerCalls = turn + 2
       /\ hcResult # "threw"
       /\ \A j \in 1..Len(toolContexts) :
            /\ "boom" \in Range(toolContexts[j])
            /\ Contains(followUpMessage, toolContexts[j])
       /\ Len(toolContexts) = Len(toolRequests)

\* C6 witness: both tools of a turn returned the failure and the follow-up
\* is with the provider.
C6_Witness ==
  /\ pc = "followup"
  /\ behaviours = <<"returnFailure", "returnFailure">>
  /\ "boom" \in Range(followUpMessage)

C8_NoOverlap ==
  /\ Cardinality(inFlight) <= 1
  /\ inFlight # {} => (pc = "invoke" /\ inFlight = {idx})
  /\ pc = "invoke" => inFlight = {idx}
  /\ cliPc = "prompt" => pc = "idle"
  /\ pc # "idle" => cliPc = "awaitChat"

\* C8 witness: a second handleChat of the session has a tool in flight.
C8_Witness ==
  /\ pc = "invoke"
  /\ inFlight = {2}
  /\ Len(SelectSeq(messageHistory, LAMBDA e : e.role = "user")) = 2
  /\ cliPc = "awaitChat"

(***************************************************************************)
(* Properties of the extractor on texts of plain words and objects.        *)
(***************************************************************************)
ObjectPlaces == {i \in 1..Len(parts) : IsObjectFragment(parts[i])}

\* What cleanToolsFromResponse does to a text it removes nothing from.
Normalise(s) == Trim(StripNewline(CollapseNewlines(s)))

\* The text has exactly one object, whose protocol is not "modai" or is
\* missing, and has been extracted and cleaned.
OneForeignObject ==
  /\ textPc = "cleaned"
  /\ Cardinality(ObjectPlaces) = 1
  /\ \A i \in ObjectPlaces : IsForeignFragment(parts[i])

\* C11 (as claimed): such a text is extracted to nothing and cleaned to
\* itself.
C11_ForeignObjectTextUnchanged ==
  OneForeignObject => (extracted = <<>> /\ cleaned = text)

\* C11 (amended): such a text is extracted to nothing, and cleaning removes
\* no part of the object: it only collapses runs of newlines and trims the
\* text.
C11_ForeignObjectKept ==
  OneForeignObject
    => /\ extracted = <<>>
       /\ cleaned = Normalise(text)
       /\ \A i \in ObjectPlaces : Contains(cleaned, Fragments[parts[i]])

\* C11 witness: a space and an object of another protocol; the cleaned text
\* is the object without the space.
C11_Witness ==
  /\ OneForeignObject
  /\ Len(parts) = 2
  /\ Fragments[parts[1]] = <<SP>>
  /\ Fragments[parts[2]] = OOther
  /\ cleaned = OOther
  /\ cleaned # text

(***************************************************************************)
(* Properties of cleanToolsFromResponse on texts of prose and directives.  *)
(***************************************************************************)
\* The fragments of parts from number i on that are no directive, one
\* after the other.
RECURSIVE ProseFrom(_)
ProseFrom(i) ==
  IF i > Len(parts) THEN <<>>
  ELSE (IF IsDirectiveFragment(parts[i]) THEN <<>> ELSE Fragments[parts[i]])
       \o ProseFrom(i + 1)

\* Some run of s is the text of an object whose protocol is "modai".
HasModaiObject(s) ==
  \E i \in 1..Len(s) : \E j \in i..Len(s) :
    /\ s[i] = LB
    /\ s[j] = RB
    /\ JSONparse(SubSeq(s, i, j)).ok
    /\ IsModai(JSONparse(SubSeq(s, i, j)).mem)

\* C12 (as claimed): the cleaned text of a text with directives holds no
\* object of the protocol, and is the prose of the text, newlines collapsed
\* and trimmed.
C12_CleanRemovesExactlyDirectives ==
  textPc = "cleaned"
    => /\ ~HasModaiObject(cleaned)
       /\ cleaned = Normalise(ProseFrom(1))

(***************************************************************************)
(* Properties of the filter of extractAndExecuteTools.                     *)
(***************************************************************************)
\* The fragments of parts from number i on, those equal to o left out.
RECURSIVE TextWithout(_, _)
TextWithout(o, i) ==
  IF i > Len(parts) THEN <<>>
  ELSE (IF Fragments[parts[i]] = o THEN <<>> ELSE Fragments[parts[i]])
       \o TextWithout(o, i + 1)

\* C13: an object of the protocol without an arguments field is parsed
\* without failure and is not returned: what is returned has an arguments
\* field, and is what the text without that object is extracted to.
C13_NoArgumentsOmitted ==
  textPc # "build"
    => /\ \A k \in 1..Len(extracted) : Field(extracted[k], "arguments") # <<>>
       /\ extracted = extractAndExecuteTools(TextWithout(DNoArguments, 1))
       /\ (\E i \in 1..Len(parts) : Fragments[parts[i]] = DNoArguments)
            => /\ JSONparse(DNoArguments).ok
               /\ Len(parseJsonObjects(text)) > Len(extracted)

\* C13 witness: a directive followed by an object without arguments; only
\* the directive is returned.
C13_Witness ==
  /\ textPc = "extracted"
  /\ Len(parts) = 2
  /\ Fragments[parts[1]] = DFlat
  /\ Fragments[parts[2]] = DNoArguments
  /\ extracted = <<JSONparse(DFlat).mem>>

\* A parsed object is a Directive: its protocol is "modai", its tool a
\* non-empty string and its arguments an object.
IsDirective(mem) ==
  /\ IsModai(mem)
  /\ Field(mem, "tool") # <<>>
  /\ Field(mem, "tool")[1].t = "str"
  /\ Field(mem, "tool")[1].v # <<>>
  /\ Field(mem, "arguments") # <<>>
  /\ Field(mem, "arguments")[1].t = "obj"

\* C14 (as claimed): every object that extractAndExecuteTools returns is a
\* Directive.
C14_OnlyDirectivesReturned ==
  textPc # "build" => \A k \in 1..Len(extracted) : IsDirective(extracted[k])

(***************************************************************************)
(* The order of what extractAndExecuteTools returns.                       *)
(***************************************************************************)
\* The directives of parts from number i on as JSON.parse reads them, in
\* the order of their opening braces.
RECURSIVE DirectivesFrom(_)
DirectivesFrom(i) ==
  IF i > Len(parts) THEN <<>>
  ELSE (IF IsDirectiveFragment(parts[i])
        THEN <<JSONparse(Fragments[parts[i]]).mem>> ELSE <<>>)
       \o DirectivesFrom(i + 1)

\* No prose fragment of the text holds an opening brace.
NoBraceInProse ==
  \A i \in 1..Len(parts) :
    IsDirectiveFragment(parts[i]) \/ LB \notin Range(Fragments[parts[i]])

\* C15: when the prose of a text holds no opening brace, what is returned
\* is the directives of the text in the order of their opening braces, one
\* element for each, adjacent directives included.
C15_LeftToRight ==
  (textPc # "build" /\ NoBraceInProse) => extracted = DirectivesFrom(1)

\* C15 witness: two different directives with nothing between them, both
\* returned, the left one first.
C15_Witness ==
  /\ textPc = "extracted"
  /\ Len(parts) = 2
  /\ Fragments[parts[1]] = DFlat
  /\ Fragments[parts[2]] = DBrace
  /\ extracted = <<JSONparse(DFlat).mem, JSONparse(DBrace).mem>>

(***************************************************************************)
(* Candidates that no tier can read.                                       *)
(***************************************************************************)
BracePlaces == {p \in 1..Len(text) : text[p] = LB}

\* The candidate c is read by none of JSON.parse, the unescaping retry and
\* the manual extraction.
NoTierReads(c) == ~JSONparse(c).ok /\ ~fuzzyJsonParse(c).ok

\* The brace at p starts no candidate, or one that no tier reads.
FailsEveryTier(p) ==
  extractJsonObject(text, p) = <<>> \/ NoTierReads(extractJsonObject(text, p))

\* c, the candidate that starts at p, is a run of at least two characters
\* of the text.
CandidateInText(p, c) ==
  c # <<>> => (Len(c) >= 2 /\ p + Len(c) - 1 <= Len(text)
               /\ c = SubSeq(text, p, p + Len(c) - 1))

\* C16: the scan always moves on (a candidate is a run of at least two
\* characters of the text that starts at its brace), what is returned is
\* finite and the same when asked again, and a text all of whose candidates
\* fail every tier is extracted to nothing and cleaned to itself, newlines
\* collapsed and trimmed.
C16_FailedCandidatesDropped ==
  /\ textPc = "extracted"
       => /\ \A p \in BracePlaces : CandidateInText(p, extractJsonObject(text, p))
          /\ Len(extracted) <= Cardinality(BracePlaces)
          /\ extracted = extractAndExecuteTools(text)
          /\ (\A p \in BracePlaces : FailsEveryTier(p)) => extracted = <<>>
  /\ textPc = "cleaned"
       => /\ Len(cleaned) <= Len(text)
          /\ cleaned = cleanToolsFromResponse(text)
          /\ (\A p \in BracePlaces : FailsEveryTier(p))
               => (extracted = <<>> /\ cleaned = Normalise(text))

\* C16 witness: the text {hello}, which no tier can read, has been
\* extracted to nothing and left as it is.
C16_Witness ==
  /\ textPc = "cleaned"
  /\ text = <<LB, "hello", RB>>
  /\ NoTierReads(extractJsonObject(text, 1))
  /\ extracted = <<>>
  /\ cleaned = text

(***************************************************************************)
(* The session history.                                                    *)
(***************************************************************************)
IsPrefix(a, b) == Len(a) <= Len(b) /\ SubSeq(b, 1, Len(a)) = a

\* C17: every step leaves the messageHistory it found as a prefix of the
\* messageHistory it leaves: entries are added at the end and never changed,
\* moved or removed.
C17_HistoryAppendOnly == [][IsPrefix(messageHistory, messageHistory')]_vars

\* C17 witness: a chat whose provider call failed, then a chat answered
\* twice (by chat and by chatWithContext); the four entries are in the order
\* of their arrival.
C17_Witness ==
  /\ Len(messageHistory) = 4
  /\ messageHistory[1].role = "user"
  /\ messageHistory[2].role = "user"
  /\ messageHistory[3] = [role |-> "assistant", content |-> RTwoTools]
  /\ messageHistory[4] = [role |-> "assistant", content |-> RProse]
  /\ outcome = "DONE"

(***************************************************************************)
(* What extractAndExecuteTools hands to its caller.                        *)
(***************************************************************************)
\* C18 (as claimed): once extractAndExecuteTools(response) has returned,
\* every tool request of the response has been executed, and each entry
\* returned holds the result of its tool.
C18_ExtractExecutes ==
  (pc = "confirm" /\ idx = 1)
    => /\ Len(invoked) = Len(toolRequests)
       /\ \A k \in 1..Len(toolRequests) : Field(toolRequests[k], "result") # <<>>

(***************************************************************************)
(* processRequest for a registered tool.                                   *)
(***************************************************************************)
\* What the tool of directive j returned, by the name of its behaviour.
Returned(j) ==
  CASE behaviours[j] = "returnOk" -> ReturnOk.val
    [] behaviours[j] = "returnFailure" -> ReturnFailure.val
    [] behaviours[j] = "returnEcho"
         -> [t |-> Field(toolRequests[j], "arguments")[1].t,
             v |-> Field(toolRequests[j], "arguments")[1].v]

\* C19: for a request of the protocol that names a registered tool, the tool
\* is executed once, with the arguments of the request, and when it returns
\* a value the result is {success: true, data: that value}.
C19_RegisteredToolRunsOnce ==
  \A j \in 1..Len(behaviours) :
    (Executes(toolRequests[j])
     /\ behaviours[j] \in {"returnOk", "returnFailure", "returnEcho"})
      => /\ Cardinality({a \in 1..Len(invoked) : invoked[a] = j}) = 1
         /\ toolResults[j].result
              = [success |-> TRUE, data |-> Returned(j), error |-> <<>>]

\* C19 witness: the two requests of a response name the same tool with
\* different arguments; each result holds the arguments of its own request.
C19_Witness ==
  /\ pc = "followup"
  /\ response = RSameTool
  /\ behaviours = <<"returnEcho", "returnEcho">>
  /\ invoked = <<1, 2>>
  /\ toolResults[1].result.data = [t |-> "obj", v |-> FlatArgs("v")]
  /\ toolResults[2].result.data = [t |-> "obj", v |-> FlatArgs("other")]

(***************************************************************************)
(* /update with and without an argument.                                   *)
(***************************************************************************)
\* C20 (as claimed): an /update with an argument looks up that tool alone,
\* an /update without one every installed tool.
C20_UpdateOnlyNamedTool ==
  /\ updateArgument \in ToolNames
       => updateChecked = updateInstalled \cap {updateArgument}
  /\ updateArgument = "" => updateChecked = updateInstalled

(***************************************************************************)
(* How handleChat ends.                                                    *)
(***************************************************************************)
\* handleChat has ended otherwise than by a provider failure, and its last
\* response holds no directive.
EndedWithoutDirective ==
  /\ pc = "idle"
  /\ outcome \in {"DONE", "ABORTED_MAX_TURNS"}
  /\ extractAndExecuteTools(response) = <<>>

\* C21 (as claimed): handleChat ends in the max-turns outcome only if its
\* last response holds a directive; whenever the last response holds none,
\* that of the fifth follow-up included, it ends in DONE with the cleaned
\* response as the answer.
C21_MaxTurnsOnlyWithDirective ==
  /\ outcome = "ABORTED_MAX_TURNS" => extractAndExecuteTools(response) # <<>>
  /\ EndedWithoutDirective
       => (outcome = "DONE" /\ answer = cleanToolsFromResponse(response))

\* C21 (amended): handleChat ends in the max-turns outcome exactly when the
\* fifth follow-up has been answered, whatever that response holds, and
\* shows no answer then; a response before that which holds no directive
\* ends it in DONE with the cleaned response as the answer.
C21_MaxTurnsWhateverLastResponse ==
  /\ outcome = "ABORTED_MAX_TURNS"
       <=> (turn = 5 /\ pc = "idle" /\ outcome # "ERROR")
  /\ outcome = "ABORTED_MAX_TURNS"
       => /\ providerCalls = 6
          /\ answer = <<>>
          /\ messageHistory[Len(messageHistory)]
               = [role |-> "assistant", content |-> response]
  /\ (EndedWithoutDirective /\ turn < 5)
       => (outcome = "DONE" /\ answer = cleanToolsFromResponse(response))

\* C21 witness: the fifth follow-up was answered with plain prose, and
\* handleChat stopped with the warning and without an answer.
C21_Witness ==
  /\ outcome = "ABORTED_MAX_TURNS"
  /\ response = RProse
  /\ extractAndExecuteTools(response) = <<>>
  /\ providerCalls = 6
  /\ answer = <<>>

(***************************************************************************)
(* The arguments in a context line.                                        *)
(***************************************************************************)
\* JSON.stringify of the arguments of directive j of this turn.
OwnArguments(j) ==
  Canon(Field(toolRequests[j], "arguments")[1].t, Field(toolRequests[j], "arguments")[1].v)

\* The line of a successful directive j that records the arguments args.
SuccessLine(j, args) ==
  <<"You executed ">> \o ToolText(toolRequests[j])
  \o <<" tool with these parameters: ">> \o args
  \o <<". The result was: ">> \o Pretty(toolResults[j].result.data)

\* C22 (as claimed): the context line of every directive whose tool was
\* executed and returned records the arguments of that very directive, also
\* when the response names the same tool more than once.
C22_LineRecordsOwnArguments ==
  pc = "followup"
    => \A j \in 1..Len(toolContexts) :
         toolResults[j].result.success
           => toolContexts[j] = SuccessLine(j, OwnArguments(j))

(***************************************************************************)
(* A tool that returns a failure instead of throwing.                      *)
(***************************************************************************)
\* C23 (as claimed): when the tool of a directive returns
\* {success: false, error: "boom"}, the result recorded for the directive is
\* a failed result with the error boom, and its context line is the failure
\* line with boom, as for a tool that throws.
C23_ReturnedFailureIsFailedResult ==
  \A j \in 1..Len(behaviours) :
    behaviours[j] = "returnFailure"
      => /\ toolResults[j].result.success = FALSE
         /\ toolResults[j].result.error = <<"boom">>
         /\ pc = "followup"
              => toolContexts[j]
                   = <<"Tool ">> \o toolResults[j].tool \o <<" failed: ", "boom">>

(***************************************************************************)
(* The spans parseJsonObjects collects from and the spans                  *)
(* cleanToolsFromResponse deletes.  A span is <<place of its opening       *)
(* brace in the text given, length>>.                                      *)
(***************************************************************************)
\* The loop of parseJsonObjects, the span of every object pushed being
\* recorded.
RECURSIVE CollectedSpansFrom(_, _, _)

CollectedSpansAt(s, spans, openBrace, jsonStr) ==
  CollectedSpansFrom(s,
                     IF jsonStr # <<>> THEN openBrace + Len(jsonStr) ELSE openBrace + 1,
                     IF jsonStr # <<>> /\ Collected(jsonStr) # <<>>
                     THEN Append(spans, <<openBrace, Len(jsonStr)>>) ELSE spans)

CollectedSpansBrace(s, spans, openBrace) ==
  IF openBrace = 0 THEN spans
  ELSE CollectedSpansAt(s, spans, openBrace, extractJsonObject(s, openBrace))

CollectedSpansFrom(s, i, spans) ==
  IF i > Len(s) THEN spans ELSE CollectedSpansBrace(s, spans, IndexOf(s, LB, i))

\* The loop of cleanToolsFromResponse, the span of every deletion being
\* recorded; removed is the number of characters deleted so far.
RECURSIVE DeletedSpansFrom(_, _, _, _)

DeletedSpansAt(s, removed, spans, openBrace, jsonStr) ==
  IF jsonStr # <<>> /\ Collected(jsonStr) # <<>>
  THEN DeletedSpansFrom(SubSeq(s, 1, openBrace - 1) \o Tail2(s, openBrace + Len(jsonStr)),
                        openBrace, removed + Len(jsonStr),
                        Append(spans, <<openBrace + removed, Len(jsonStr)>>))
  ELSE DeletedSpansFrom(s, openBrace + 1, removed, spans)

DeletedSpansBrace(s, removed, spans, openBrace) ==
  IF openBrace = 0 THEN spans
  ELSE DeletedSpansAt(s, removed, spans, openBrace, extractJsonObject(s, openBrace))

DeletedSpansFrom(s, startIndex, removed, spans) ==
  DeletedSpansBrace(s, removed, spans, IndexOf(s, LB, startIndex))

\* C24 (as claimed): the spans cleanToolsFromResponse deletes from a text
\* are the spans parseJsonObjects collects an object of the protocol for.
C24_SameSpans ==
  textPc = "cleaned"
    => DeletedSpansFrom(text, 1, 0, <<>>) = CollectedSpansFrom(text, 1, <<>>)

(***************************************************************************)
(* What the manual extraction accepts.                                     *)
(***************************************************************************)
\* Neither JSON.parse nor the unescaping retry reads c: the manual
\* extraction decides.
\* The text fuzzyJsonParse hands to JSON.parse.
Unescaped(c) == Unescape(Unescape(Unescape(c, LB), RB), Q)

ReachesManual(c) == ~JSONparse(c).ok /\ ~JSONparse(Unescaped(c)).ok

\* The object has a protocol, a tool and arguments with at least one key.
HasNonEmptyArguments(mem) ==
  /\ Field(mem, "protocol") # <<>>
  /\ Field(mem, "tool") # <<>>
  /\ Field(mem, "arguments") # <<>>
  /\ Field(mem, "arguments")[1].v # <<LB, RB>>

\* C25 (as claimed): an object that the manual extraction yields has a
\* protocol, a tool and arguments that are not empty; a text that is one
\* malformed candidate whose arguments are {} or hold no key:value pair is
\* extracted to nothing.
C25_ManualNeedsNonEmptyArguments ==
  textPc # "build"
    => /\ \A i \in 1..Len(parts) :
            (/\ IsMalformedFragment(parts[i])
             /\ ReachesManual(Fragments[parts[i]])
             /\ manualKeyValueExtraction(Fragments[parts[i]]).ok)
              => HasNonEmptyArguments(manualKeyValueExtraction(Fragments[parts[i]]).mem)
       /\ (Len(parts) = 1 /\ Fragments[parts[1]] \in {OEmptyArgsComma, ONoPairArgs})
            => extracted = <<>>

(***************************************************************************)
(* An opening brace without its closing brace.                             *)
(***************************************************************************)
\* The places in text of the opening braces of the prose.
ProseBracePlaces ==
  UNION {{FragmentStart(i) + o - 1 : o \in 1..Len(Fragments[parts[i]])} :
           i \in {j \in 1..Len(parts) : ~IsDirectiveFragment(parts[j])}}
  \cap BracePlaces

\* The brace at p has no closing brace before the end of the text.
Unmatched(p) == extractJsonObject(text, p) = <<>>

\* C26: when the first opening brace of a text has no closing brace, what
\* is returned is what the text after that brace is extracted to; and when
\* no opening brace of the prose has a closing brace, every directive of the
\* text is returned, those after such a brace included.
C26_UnmatchedBraceSkipsOne ==
  textPc = "extracted"
    => /\ (BracePlaces # {} /\ Unmatched(Min(BracePlaces)))
            => extracted = extractAndExecuteTools(Tail2(text, Min(BracePlaces) + 1))
       /\ (\A p \in ProseBracePlaces : Unmatched(p)) => extracted = DirectivesFrom(1)

\* C26 witness: an opening brace that is never closed, followed by a
\* directive, which is returned.
C26_Witness ==
  /\ textPc = "extracted"
  /\ Len(parts) = 2
  /\ Fragments[parts[1]] = <<LB>>
  /\ Fragments[parts[2]] = DFlat
  /\ Unmatched(1)
  /\ extracted = <<JSONparse(DFlat).mem>>

(***************************************************************************)
(* Double-encoded directives.                                              *)
(***************************************************************************)
EncodedPlaces == {i \in 1..Len(parts) : IsEncodedFragment(parts[i])}

\* The text is plain words and exactly one double-encoded directive.
OneEncodedDirective ==
  /\ Cardinality(EncodedPlaces) = 1
  /\ \A i \in 1..Len(parts) : parts[i] \in PlainProse \/ IsEncodedFragment(parts[i])

\* What a double-encoded directive c is to be extracted to.
Recovered(c) ==
  IF IsModai(JSONparse(Unescaped(c)).mem) THEN <<JSONparse(Unescaped(c)).mem>> ELSE <<>>

\* C27 (as claimed): a double-encoded directive, its quotes written as \"
\* and its braces as they are or as \{ and \}, fails JSON.parse, parses
\* once unescaped, and is returned if and only if its protocol is "modai".
C27_DoubleEncodedRecovered ==
  (textPc # "build" /\ OneEncodedDirective)
    => \A i \in EncodedPlaces :
         /\ ~JSONparse(Fragments[parts[i]]).ok
         /\ JSONparse(Unescaped(Fragments[parts[i]])).ok
         /\ extracted = Recovered(Fragments[parts[i]])

(***************************************************************************)
(* processRequest on requests of every kind.                               *)
(***************************************************************************)
\* The failed result with the error e.
Failed(e) == [success |-> FALSE, data |-> Undefined, error |-> e, threw |-> FALSE]

\* C28: processRequest never throws.  A request of another protocol
\* resolves to the failure "Invalid protocol" and no tool is looked up or
\* executed; a request for a tool that is not registered resolves to the
\* failure "Unknown tool: <name>" and no tool is executed; an Error thrown
\* by the tool, that of a missing required argument included, resolves to
\* the failure with the message of the Error (a thrown value that is no
\* Error to the failure "Unknown error").
C28_ProcessRequestNeverThrows ==
  /\ ~prResult.threw
  /\ prPc = "executing" => (IsModai(prRequest) /\ ToolKnown(prRequest) /\ prInvoked)
  /\ prPc = "done"
       => /\ ~IsModai(prRequest)
               => (prResult = Failed(<<"Invalid protocol">>) /\ ~prLookedUp /\ ~prInvoked)
          /\ (IsModai(prRequest) /\ ~ToolKnown(prRequest))
               => (prResult = Failed(<<"Unknown tool: ">> \o ToolText(prRequest))
                   /\ ~prInvoked)
          /\ prBehaviour = "throwError" => prResult = Failed(<<"boom">>)
          /\ prBehaviour = "throwOther" => prResult = Failed(<<"Unknown error">>)
          /\ (prBehaviour = "validates"
                /\ validateArgs(ExecuteArguments(prRequest), "k") # <<>>)
               => prResult = Failed(validateArgs(ExecuteArguments(prRequest), "k"))
          /\ prResult.success => (prInvoked /\ prBehaviour # "none")

\* C28 witness: the second call is for a registered tool that requires the
\* argument k and is given {"j":"v"}; it resolved to the failure of the
\* missing argument.
C28_Witness ==
  /\ prPc = "done"
  /\ prCalls = 2
  /\ prRequest = JSONparse(DOtherKey).mem
  /\ prBehaviour = "validates"
  /\ prResult = Failed(<<"Missing required argument: ", "k">>)

(***************************************************************************)
(* cleanToolsFromResponse applied twice.                                   *)
(***************************************************************************)
\* C29 (as claimed): cleaning a cleaned text leaves it as it is.
C29_CleanIdempotent ==
  textPc = "cleaned" => cleanToolsFromResponse(cleaned) = cleaned


(***************************************************************************)
(* What one handleChat adds to the session history.                        *)
(***************************************************************************)
\* The entries messageHistory has gained since handleChat was called last.
Grown == SubSeq(messageHistory, historyAtCall + 1, Len(messageHistory))

\* g is one user entry holding an initial prompt, followed by n assistant
\* entries.
PromptThenReplies(g, n) ==
  /\ Len(g) = n + 1
  /\ g[1].role = "user"
  /\ g[1].content \in {InitialPrompt(l) : l \in ChatLines}
  /\ \A i \in 2..Len(g) : g[i].role = "assistant"

\* handleChat has been called and has ended.
HandleChatEnded == pc = "idle" /\ hcResult # "none"

\* C30 (as claimed): when handleChat has ended after turn completed
\* follow-up calls, messageHistory has gained one user entry followed by
\* turn + 1 assistant entries, and at most 6 provider calls were made.
C30_PromptAndOneMoreReplyThanFollowUps ==
  /\ providerCalls <= 6
  /\ HandleChatEnded => PromptThenReplies(Grown, turn + 1)

\* C30 (amended): from its call on, handleChat has added to messageHistory
\* the initial prompt as one user entry followed by one assistant entry for
\* each provider call that completed (none when the initial call has not
\* completed or has failed, turn + 1 otherwise); the follow-up message is
\* the last entry of the history handed to the provider and is no entry of
\* messageHistory; and at most 6 provider calls are made.
C30_PromptAndOneReplyPerCompletedCall ==
  /\ providerCalls <= 6
  /\ (pc # "idle" \/ hcResult # "none")
       => PromptThenReplies(Grown, IF iterations = 0 THEN 0 ELSE turn + 1)
  /\ pc = "chat" => passed = messageHistory
  /\ pc = "followup"
       => /\ passed = Append(messageHistory, [role |-> "user", content |-> followUpMessage])
          /\ \A i \in 1..Len(messageHistory) : messageHistory[i].content # followUpMessage
  /\ \A i \in 1..Len(messageHistory) :
       messageHistory[i].role = "user"
         => messageHistory[i].content \in {InitialPrompt(l) : l \in ChatLines}

\* C30 witness: a handleChat that ended in DONE after two follow-up calls
\* has left its prompt and three responses in messageHistory.
C30_Witness ==
  /\ HandleChatEnded
  /\ outcome = "DONE"
  /\ turn = 2
  /\ providerCalls = 3
  /\ Len(Grown) = 4
  /\ Grown[1].role = "user"
  /\ Grown[4] = [role |-> "assistant", content |-> response]
====
